---- MODULE Spec2Model ----
(***************************************************************************)
(* Model of the auction system: src/src/models.py (Participante, Lance,    *)
(* Leilao) and src/src/sistema.py (SistemaLeiloes).                        *)
(*                                                                         *)
(* A method of SistemaLeiloes is an operator from the system and the       *)
(* arguments to the set of outcomes the call can have: one outcome for     *)
(* each sequence of values datetime.now() can return to the reads the call *)
(* makes (the wall clock may be set back between two reads). An outcome    *)
(* holds the system after the call, the exception raised ("" for none)     *)
(* and what the message or the return value tells the caller. The action   *)
(* of a method installs one of its outcomes.                               *)
(* Amounts are integers; 0 stands for every non-positive amount.           *)
(***************************************************************************)
EXTENDS Integers, Sequences, FiniteSets, TLC

\* ------------------------------------------------------------------ bounds
MaxTime == 2      \* clock readings and dates range over 0..MaxTime
MaxValor == 2     \* amounts range over 0..MaxValor

Times == 0 .. MaxTime
Valores == 0 .. MaxValor

\* A CPF is a sequence of characters; a valid one holds CpfDigitos digits
CpfDigitos == 11
CpfPuro(d) == [k \in 1 .. CpfDigitos |-> d]
CpfPontuado(d) == <<d, d, d, ".", d, d, d, ".", d, d, d, "-", d, d>>
Cpfs == {CpfPuro("1"), CpfPuro("2")}
Emails == {"e1", "e2"}
Nomes == {"A"}
Estados == {"INATIVO", "ABERTO", "FINALIZADO", "EXPIRADO"}

\* None, for an optional participant / name / number
NoPart == [cpf |-> <<>>, email |-> ""]
NoNome == "None"
NoNum == -1
NoLance == [participante |-> NoPart, valor |-> NoNum]

\* An argument that is neither None nor a string / a number / a datetime
NaoNome == "NaoStr"
NaoNum == -2

\* An argument of propor_lance that is not a Lance
NaoLance == [participante |-> NoPart, valor |-> 0]

VARIABLES
    participantes,  \* SistemaLeiloes._participantes: set of [cpf, email, possui_lances]
    leiloes,        \* SistemaLeiloes._leiloes: sequence of Leilao records
    relogio,        \* the last value datetime.now() returned, where the clock is
                    \* taken to be monotonic (the other specifications leave it)
    emVoo           \* per thread, the propor_lance call between its check and its
                    \* append: [nome, lance], or Ocioso

vars == <<participantes, leiloes, relogio, emVoo>>

\* The SistemaLeiloes object
Sis == [participantes |-> participantes, leiloes |-> leiloes]

\* ------------------------------------------------------------ Participante
\* The characters re.sub(r'[^0-9]', '', cpf) keeps
EhDigito(c) == c \in {"0", "1", "2", "3", "4", "5", "6", "7", "8", "9"}

\* Participante._formatar_cpf: the digits of the CPF, in order
FormatarCpf(cpf) == SelectSeq(cpf, EhDigito)

\* Participante._validar_cpf: non-empty, with exactly CpfDigitos digits
ValidarCpf(cpf) == cpf # <<>> /\ Len(SelectSeq(cpf, EhDigito)) = CpfDigitos

\* Participante._validar_email: "" is the empty email, "sem_arroba" a non-empty
\* string the pattern does not match, any other string matches
ValidarEmail(email) == email # "" /\ email # "sem_arroba"

\* Participante.__eq__: same cpf or same email
ParticipanteEq(p, q) == p.cpf = q.cpf \/ p.email = q.email

\* hash(self.cpf): a function of the characters of the stored cpf alone. The
\* interpreter's string hash is stood for by a polynomial hash of the digits,
\* modulo HashMod.
HashMod == 65521
DigitoValor(c) ==
    CASE c = "0" -> 0 [] c = "1" -> 1 [] c = "2" -> 2 [] c = "3" -> 3 [] c = "4" -> 4
      [] c = "5" -> 5 [] c = "6" -> 6 [] c = "7" -> 7 [] c = "8" -> 8 [] c = "9" -> 9
      [] OTHER -> 10
RECURSIVE HashStr(_)
HashStr(s) ==
    IF s = <<>> THEN 0
    ELSE (HashStr(SubSeq(s, 1, Len(s) - 1)) * 31 + DigitoValor(s[Len(s)])) % HashMod

\* Participante.__hash__
ParticipanteHash(p) == HashStr(p.cpf)

\* Mutant: the flag is never set
MarcarComoOfertante_Nada(ps, part) == ps

\* Participante.marcar_como_ofertante on the object the bid refers to
MarcarComoOfertante(ps, part) ==
    { IF p.cpf = part.cpf /\ p.email = part.email
        THEN [p EXCEPT !.possui_lances = TRUE] ELSE p : p \in ps }

\* Mutant: the flag does not block the deletion
PodeSerExcluido_Sempre(p) == TRUE

\* Participante.pode_ser_excluido
PodeSerExcluido(p) == ~p.possui_lances

\* ------------------------------------------------------------------- Lance
\* Mutant: two bids of the same amount are equal, whoever made them
LanceEq_SoValor(a, b) == a.valor = b.valor

\* Lance.__eq__, __lt__, __le__, __gt__, __ge__
LanceEq(a, b) == ParticipanteEq(a.participante, b.participante) /\ a.valor = b.valor
LanceLt(a, b) == a.valor < b.valor
LanceLe(a, b) == a.valor <= b.valor
LanceGt(a, b) == a.valor > b.valor
LanceGe(a, b) == a.valor >= b.valor

\* ------------------------------------------------------------------ Leilao
\* Leilao.ultimo_lance (of a non-empty log)
UltimoLance(lances) == lances[Len(lances)]

\* Mutant: the first bid instead of the highest
MaiorLance_Primeiro(lances) == lances[1]

\* Leilao.maior_lance (of a non-empty log): max(..., key=valor) returns the
\* first maximal element
MaiorLance(lances) ==
    LET i == CHOOSE i \in 1 .. Len(lances) :
                 /\ \A j \in 1 .. Len(lances) : lances[j].valor <= lances[i].valor
                 /\ \A j \in 1 .. i - 1 : lances[j].valor < lances[i].valor
    IN lances[i]

\* Mutant: the last bid instead of the lowest
MenorLance_Ultimo(lances) == lances[Len(lances)]

\* Leilao.menor_lance (of a non-empty log): min returns the first minimum
MenorLance(lances) ==
    LET i == CHOOSE i \in 1 .. Len(lances) :
                 /\ \A j \in 1 .. Len(lances) : lances[i].valor <= lances[j].valor
                 /\ \A j \in 1 .. i - 1 : lances[j].valor > lances[i].valor
    IN lances[i]

RECURSIVE LancesOrdenados_Decrescente(_)
\* Mutant: the view is sorted by decreasing amount
LancesOrdenados_Decrescente(lances) ==
    IF lances = <<>> THEN <<>>
    ELSE LET r == LancesOrdenados_Decrescente(SubSeq(lances, 1, Len(lances) - 1))
             x == lances[Len(lances)]
             k == Cardinality({j \in 1 .. Len(r) : r[j].valor >= x.valor})
         IN SubSeq(r, 1, k) \o <<x>> \o SubSeq(r, k + 1, Len(r))

RECURSIVE LancesOrdenados(_)
\* Leilao.lances: sorted(self._lances, key=valor), a stable sort: each bid goes
\* after the earlier bids of an amount up to its own
LancesOrdenados(lances) ==
    IF lances = <<>> THEN <<>>
    ELSE LET r == LancesOrdenados(SubSeq(lances, 1, Len(lances) - 1))
             x == lances[Len(lances)]
             k == Cardinality({j \in 1 .. Len(r) : r[j].valor <= x.valor})
         IN SubSeq(r, 1, k) \o <<x>> \o SubSeq(r, k + 1, Len(r))

\* Mutant: an auction past its end expires whether or not it holds bids
AtualizarEstado_SempreExpira(l, agora) ==
    IF l.estado = "FINALIZADO" THEN l
    ELSE IF agora < l.data_inicio THEN [l EXCEPT !.estado = "INATIVO"]
    ELSE IF agora < l.data_termino THEN [l EXCEPT !.estado = "ABERTO"]
    ELSE [l EXCEPT !.estado = "EXPIRADO"]

\* Mutant: the winner is not recorded at finalization
AtualizarEstado_SemGanhador(l, agora) ==
    IF l.estado = "FINALIZADO" THEN l
    ELSE IF agora < l.data_inicio THEN [l EXCEPT !.estado = "INATIVO"]
    ELSE IF agora < l.data_termino THEN [l EXCEPT !.estado = "ABERTO"]
    ELSE IF l.lances # <<>> THEN [l EXCEPT !.estado = "FINALIZADO"]
    ELSE [l EXCEPT !.estado = "EXPIRADO"]

\* Mutant: FINALIZADO is recomputed like the other states
AtualizarEstado_SemTerminal(l, agora) ==
    IF agora < l.data_inicio THEN [l EXCEPT !.estado = "INATIVO"]
    ELSE IF agora < l.data_termino THEN [l EXCEPT !.estado = "ABERTO"]
    ELSE IF l.lances # <<>>
        THEN [l EXCEPT !.estado = "FINALIZADO",
                       !.ganhador = MaiorLance(l.lances).participante]
    ELSE [l EXCEPT !.estado = "EXPIRADO"]

\* Mutant: the window includes its end (agora <= data_termino is still open)
AtualizarEstado_FimInclusivo(l, agora) ==
    IF l.estado = "FINALIZADO" THEN l
    ELSE IF agora < l.data_inicio THEN [l EXCEPT !.estado = "INATIVO"]
    ELSE IF agora <= l.data_termino THEN [l EXCEPT !.estado = "ABERTO"]
    ELSE IF l.lances # <<>>
        THEN [l EXCEPT !.estado = "FINALIZADO",
                       !.ganhador = MaiorLance(l.lances).participante]
    ELSE [l EXCEPT !.estado = "EXPIRADO"]

\* Mutant: an INATIVO auction whose start has passed is opened first, whatever
\* the clock says about its end (one transition per call)
AtualizarEstado_PassoAPasso(l, agora) ==
    IF l.estado = "FINALIZADO" THEN l
    ELSE IF l.estado = "INATIVO" /\ agora >= l.data_inicio
        THEN [l EXCEPT !.estado = "ABERTO"]
    ELSE IF agora < l.data_inicio THEN [l EXCEPT !.estado = "INATIVO"]
    ELSE IF agora < l.data_termino THEN [l EXCEPT !.estado = "ABERTO"]
    ELSE IF l.lances # <<>>
        THEN [l EXCEPT !.estado = "FINALIZADO",
                       !.ganhador = MaiorLance(l.lances).participante]
    ELSE [l EXCEPT !.estado = "EXPIRADO"]

\* Mutant: EXPIRADO is terminal like FINALIZADO
AtualizarEstado_ExpiradoTerminal(l, agora) ==
    IF l.estado = "FINALIZADO" \/ l.estado = "EXPIRADO" THEN l
    ELSE IF agora < l.data_inicio THEN [l EXCEPT !.estado = "INATIVO"]
    ELSE IF agora < l.data_termino THEN [l EXCEPT !.estado = "ABERTO"]
    ELSE IF l.lances # <<>>
        THEN [l EXCEPT !.estado = "FINALIZADO",
                       !.ganhador = MaiorLance(l.lances).participante]
    ELSE [l EXCEPT !.estado = "EXPIRADO"]

\* Leilao.atualizar_estado with datetime.now() = agora
AtualizarEstado(l, agora) ==
    IF l.estado = "FINALIZADO" THEN l
    ELSE IF agora < l.data_inicio THEN [l EXCEPT !.estado = "INATIVO"]
    ELSE IF l.data_inicio <= agora /\ agora < l.data_termino
        THEN [l EXCEPT !.estado = "ABERTO"]
    ELSE IF agora >= l.data_termino
        THEN IF l.lances # <<>>
                THEN [l EXCEPT !.estado = "FINALIZADO",
                               !.ganhador = MaiorLance(l.lances).participante]
                ELSE [l EXCEPT !.estado = "EXPIRADO"]
    ELSE l

\* The validation of Leilao.__init__: nome "" is the empty name and NoNome a
\* name that is not a string, lance_minimo 0 a non-positive minimum and NoNum
\* one that is not a number, a date NoNum one that is not a datetime
DadosInvalidos(nome, lance_minimo, data_inicio, data_termino) ==
    \/ nome = "" \/ nome = NoNome
    \/ lance_minimo = NoNum \/ lance_minimo <= 0
    \/ data_inicio = NoNum \/ data_termino = NoNum
    \/ data_inicio >= data_termino

\* Mutant: the constructor leaves the state at INATIVO
NovoLeilao_SemAtualizar(nome, lance_minimo, data_inicio, data_termino, agora) ==
    [nome |-> nome, lance_minimo |-> lance_minimo,
     data_inicio |-> data_inicio, data_termino |-> data_termino,
     lances |-> <<>>, estado |-> "INATIVO", ganhador |-> NoPart]

\* Leilao.__init__ after its validation: the new object, state derived at agora
NovoLeilao(nome, lance_minimo, data_inicio, data_termino, agora) ==
    AtualizarEstado([nome |-> nome, lance_minimo |-> lance_minimo,
                     data_inicio |-> data_inicio, data_termino |-> data_termino,
                     lances |-> <<>>, estado |-> "INATIVO", ganhador |-> NoPart],
                    agora)

\* Leilao.ganhador, after the state was re-derived by the estado property
Ganhador(l) == IF l.estado = "FINALIZADO" THEN l.ganhador ELSE NoPart

\* Mutant: the state is not derived again; the one the check saw is used
PodeReceberLance_SemEstado(l, participante, valor, agora) ==
    LET ok == IF l.estado # "ABERTO" THEN FALSE
              ELSE IF valor < l.lance_minimo THEN FALSE
              ELSE IF l.lances = <<>> THEN TRUE
              ELSE IF valor <= UltimoLance(l.lances).valor THEN FALSE
              ELSE IF ParticipanteEq(participante, UltimoLance(l.lances).participante)
                  THEN FALSE
              ELSE TRUE
    IN [leilao |-> l, ok |-> ok]

\* Mutant: an amount equal to the last bid's is admitted
PodeReceberLance_NaoEstrito(l, participante, valor, agora) ==
    LET l1 == AtualizarEstado(l, agora)
        ok == IF l1.estado # "ABERTO" THEN FALSE
              ELSE IF valor < l1.lance_minimo THEN FALSE
              ELSE IF l1.lances = <<>> THEN TRUE
              ELSE IF valor < UltimoLance(l1.lances).valor THEN FALSE
              ELSE IF ParticipanteEq(participante, UltimoLance(l1.lances).participante)
                  THEN FALSE
              ELSE TRUE
    IN [leilao |-> l1, ok |-> ok]

\* Mutant: the same bidder may bid twice in a row
PodeReceberLance_SemConsecutivo(l, participante, valor, agora) ==
    LET l1 == AtualizarEstado(l, agora)
    IN [leilao |-> l1,
        ok |-> /\ l1.estado = "ABERTO"
               /\ valor >= l1.lance_minimo
               /\ (l1.lances # <<>> => valor > UltimoLance(l1.lances).valor)]

\* Mutant: a bid must exceed the minimum (valor <= lance_minimo is refused)
PodeReceberLance_MinimoEstrito(l, participante, valor, agora) ==
    LET l1 == AtualizarEstado(l, agora)
    IN [leilao |-> l1,
        ok |-> /\ l1.estado = "ABERTO"
               /\ valor > l1.lance_minimo
               /\ (l1.lances # <<>> =>
                      /\ valor > UltimoLance(l1.lances).valor
                      /\ ~ParticipanteEq(participante,
                                         UltimoLance(l1.lances).participante))]

\* Leilao._pode_receber_lance: re-derives the state at agora, then decides
PodeReceberLance(l, participante, valor, agora) ==
    LET l1 == AtualizarEstado(l, agora)
        ok == IF l1.estado # "ABERTO" THEN FALSE
              ELSE IF valor < l1.lance_minimo THEN FALSE
              ELSE IF l1.lances = <<>> THEN TRUE
              ELSE IF valor <= UltimoLance(l1.lances).valor THEN FALSE
              ELSE IF ParticipanteEq(participante, UltimoLance(l1.lances).participante)
                  THEN FALSE
              ELSE TRUE
    IN [leilao |-> l1, ok |-> ok]

\* Mutant: the comparison with the last bid comes before the minimum
Motivo_UltimoPrimeiro(l, lance) ==
    IF l.lances # <<>> /\ lance.valor <= UltimoLance(l.lances).valor
        THEN "nao_maior_que_ultimo"
    ELSE IF lance.valor < l.lance_minimo THEN "abaixo_do_minimo"
    ELSE IF /\ l.lances # <<>>
            /\ ParticipanteEq(lance.participante, UltimoLance(l.lances).participante)
        THEN "dois_lances_seguidos"
    ELSE "desconhecido"

\* The reason propor_lance puts in its LanceInvalido message
Motivo(l, lance) ==
    IF lance.valor < l.lance_minimo THEN "abaixo_do_minimo"
    ELSE IF l.lances # <<>>
        THEN IF lance.valor <= UltimoLance(l.lances).valor THEN "nao_maior_que_ultimo"
             ELSE IF ParticipanteEq(lance.participante, UltimoLance(l.lances).participante)
                 THEN "dois_lances_seguidos"
             ELSE "desconhecido"
    ELSE "desconhecido"

\* Mutant: the check refuses only a FINALIZADO auction
ProporLance_SoFinalizado(l, lance, ts) ==
    LET l2 == AtualizarEstado(AtualizarEstado(l, ts[1]), ts[2])
    IN IF l2.estado = "FINALIZADO"
       THEN [leilao |-> l2, exc |-> "LeilaoInvalido", motivo |-> "nao_aberto",
             visto |-> l2.estado, estado |-> l2.estado, aceito |-> FALSE]
       ELSE IF lance = NaoLance
       THEN [leilao |-> l2, exc |-> "TypeError", motivo |-> "", visto |-> l2.estado,
             estado |-> "", aceito |-> FALSE]
       ELSE LET l3 == AtualizarEstado(l2, ts[3])
                ok == /\ l3.estado = "ABERTO"
                      /\ PodeReceberLance(l2, lance.participante, lance.valor, ts[3]).ok
            IN IF ~ok
               THEN [leilao |-> l3, exc |-> "LanceInvalido",
                     motivo |-> Motivo(l3, lance), visto |-> l2.estado,
                     estado |-> "", aceito |-> FALSE]
               ELSE [leilao |-> [l3 EXCEPT !.lances = Append(@, lance)],
                     exc |-> "", motivo |-> "", visto |-> l2.estado,
                     estado |-> "", aceito |-> TRUE]

\* Mutant: an accepted bid replaces the log
ProporLance_Substitui(l, lance, ts) ==
    LET l2 == AtualizarEstado(AtualizarEstado(l, ts[1]), ts[2])
    IN IF l2.estado # "ABERTO"
       THEN LET l3 == AtualizarEstado(l2, ts[3])
            IN [leilao |-> l3, exc |-> "LeilaoInvalido", motivo |-> "nao_aberto",
                visto |-> l2.estado, estado |-> l3.estado, aceito |-> FALSE]
       ELSE IF lance = NaoLance
       THEN [leilao |-> l2, exc |-> "TypeError", motivo |-> "", visto |-> l2.estado,
             estado |-> "", aceito |-> FALSE]
       ELSE LET p == PodeReceberLance(l2, lance.participante, lance.valor, ts[3])
            IN IF ~p.ok
               THEN [leilao |-> p.leilao, exc |-> "LanceInvalido",
                     motivo |-> Motivo(p.leilao, lance), visto |-> l2.estado,
                     estado |-> "", aceito |-> FALSE]
               ELSE [leilao |-> [p.leilao EXCEPT !.lances = <<lance>>],
                     exc |-> "", motivo |-> "", visto |-> l2.estado,
                     estado |-> "", aceito |-> TRUE]

\* Mutant: the argument is checked before the state
ProporLance_ArgumentoPrimeiro(l, lance, ts) ==
    LET l2 == AtualizarEstado(AtualizarEstado(l, ts[1]), ts[2])
    IN IF lance = NaoLance
       THEN [leilao |-> l, exc |-> "TypeError", motivo |-> "", visto |-> l2.estado,
             estado |-> "", aceito |-> FALSE]
       ELSE IF l2.estado # "ABERTO"
       THEN LET l3 == AtualizarEstado(l2, ts[3])
            IN [leilao |-> l3, exc |-> "LeilaoInvalido", motivo |-> "nao_aberto",
                visto |-> l2.estado, estado |-> l3.estado, aceito |-> FALSE]
       ELSE LET p == PodeReceberLance(l2, lance.participante, lance.valor, ts[3])
            IN IF ~p.ok
               THEN [leilao |-> p.leilao, exc |-> "LanceInvalido",
                     motivo |-> Motivo(p.leilao, lance), visto |-> l2.estado,
                     estado |-> "", aceito |-> FALSE]
               ELSE [leilao |-> [p.leilao EXCEPT !.lances = Append(@, lance)],
                     exc |-> "", motivo |-> "", visto |-> l2.estado,
                     estado |-> "", aceito |-> TRUE]

\* Leilao.propor_lance; lance is a Lance or NaoLance. ts[1]: the clock at the
\* atualizar_estado call, ts[2]: at the estado read of the check, ts[3]: at the
\* estado read that builds the LeilaoInvalido message, or else at the one
\* inside _pode_receber_lance. visto: the state the check decided on; estado:
\* the state named in the message.
ProporLance(l, lance, ts) ==
    LET l2 == AtualizarEstado(AtualizarEstado(l, ts[1]), ts[2])
    IN IF l2.estado # "ABERTO"
       THEN LET l3 == AtualizarEstado(l2, ts[3])
            IN [leilao |-> l3, exc |-> "LeilaoInvalido", motivo |-> "nao_aberto",
                visto |-> l2.estado, estado |-> l3.estado, aceito |-> FALSE]
       ELSE IF lance = NaoLance
       THEN [leilao |-> l2, exc |-> "TypeError", motivo |-> "", visto |-> l2.estado,
             estado |-> "", aceito |-> FALSE]
       ELSE LET p == PodeReceberLance(l2, lance.participante, lance.valor, ts[3])
            IN IF ~p.ok
               THEN [leilao |-> p.leilao, exc |-> "LanceInvalido",
                     motivo |-> Motivo(p.leilao, lance), visto |-> l2.estado,
                     estado |-> "", aceito |-> FALSE]
               ELSE [leilao |-> [p.leilao EXCEPT !.lances = Append(@, lance)],
                     exc |-> "", motivo |-> "", visto |-> l2.estado,
                     estado |-> "", aceito |-> TRUE]

\* Mutant: only a finalized auction is protected
PodeSerAlteradoOuExcluido_NaoFinalizado(l) == l.estado # "FINALIZADO"

\* Leilao.pode_ser_alterado_ou_excluido, after the state was re-derived
PodeSerAlteradoOuExcluido(l) == l.estado = "INATIVO" \/ l.estado = "EXPIRADO"

\* ---------------------------------------------------------- SistemaLeiloes
\* SistemaLeiloes.buscar_leilao_por_nome: index of the first match, 0 for None
BuscarLeilaoPorNome(ls, nome) ==
    IF \E i \in 1 .. Len(ls) : ls[i].nome = nome
    THEN CHOOSE i \in 1 .. Len(ls) :
             ls[i].nome = nome /\ \A j \in 1 .. i - 1 : ls[j].nome # nome
    ELSE 0

\* SistemaLeiloes._formatar_cpf_busca
FormatarCpfBusca(cpf) == IF cpf = <<>> THEN <<>> ELSE SelectSeq(cpf, EhDigito)

\* SistemaLeiloes.buscar_participante_por_cpf: the dict's entries under the key
BuscarParticipantePorCpf(ps, cpf) == { p \in ps : p.cpf = FormatarCpfBusca(cpf) }

\* del self._leiloes[i]
Remover(ls, i) == [k \in 1 .. Len(ls) - 1 |-> IF k < i THEN ls[k] ELSE ls[k + 1]]

Ref(p) == [cpf |-> p.cpf, email |-> p.email]

\* An outcome of a call
Outcome(ps, ls, ts, exc, motivo, visto, estado, ret) ==
    [sis |-> [participantes |-> ps, leiloes |-> ls], ts |-> ts, exc |-> exc,
     motivo |-> motivo, visto |-> visto, estado |-> estado, ret |-> ret]

\* Mutant: the emails already registered are not compared
CadastrarParticipante_SemEmailUnico(sis, cpf, email) ==
    LET cpf_fmt == FormatarCpf(cpf)
    IN IF ~ValidarCpf(cpf) \/ ~ValidarEmail(email)
       THEN {Outcome(sis.participantes, sis.leiloes, <<>>, "ValueError",
                     "", "", "", NoPart)}
       ELSE IF \E p \in sis.participantes : p.cpf = cpf_fmt
       THEN {Outcome(sis.participantes, sis.leiloes, <<>>, "ParticipanteInvalido",
                     "cpf_ja_cadastrado", "", "", NoPart)}
       ELSE {Outcome(sis.participantes \cup
                         {[cpf |-> cpf_fmt, email |-> email, possui_lances |-> FALSE]},
                     sis.leiloes, <<>>, "", "", "", "",
                     [cpf |-> cpf_fmt, email |-> email])}

\* SistemaLeiloes.cadastrar_participante (nome and data_nascimento valid):
\* Participante.__init__ validates, then the dict is keyed by the formatted CPF
CadastrarParticipante(sis, cpf, email) ==
    LET cpf_fmt == FormatarCpf(cpf)
    IN IF ~ValidarCpf(cpf) \/ ~ValidarEmail(email)
       THEN {Outcome(sis.participantes, sis.leiloes, <<>>, "ValueError",
                     "", "", "", NoPart)}
       ELSE IF \E p \in sis.participantes : p.cpf = cpf_fmt
       THEN {Outcome(sis.participantes, sis.leiloes, <<>>, "ParticipanteInvalido",
                     "cpf_ja_cadastrado", "", "", NoPart)}
       ELSE IF \E p \in sis.participantes : p.email = email
       THEN {Outcome(sis.participantes, sis.leiloes, <<>>, "ParticipanteInvalido",
                     "email_ja_cadastrado", "", "", NoPart)}
       ELSE {Outcome(sis.participantes \cup
                         {[cpf |-> cpf_fmt, email |-> email, possui_lances |-> FALSE]},
                     sis.leiloes, <<>>, "", "", "", "",
                     [cpf |-> cpf_fmt, email |-> email])}

\* SistemaLeiloes.excluir_participante
ExcluirParticipante(sis, cpf) ==
    LET achados == BuscarParticipantePorCpf(sis.participantes, cpf)
    IN IF achados = {}
       THEN {Outcome(sis.participantes, sis.leiloes, <<>>, "ParticipanteInvalido",
                     "nao_encontrado", "", "", NoPart)}
       ELSE IF \E p \in achados : ~PodeSerExcluido(p)
       THEN {Outcome(sis.participantes, sis.leiloes, <<>>, "ParticipanteInvalido",
                     "possui_lances", "", "", NoPart)}
       ELSE {Outcome(sis.participantes \ achados, sis.leiloes, <<>>,
                     "", "", "", "", NoPart)}

\* Mutant: a window with data_inicio = data_termino is accepted
CadastrarLeilao_DatasIguais(sis, nome, lance_minimo, data_inicio, data_termino) ==
    IF BuscarLeilaoPorNome(sis.leiloes, nome) # 0
    THEN {Outcome(sis.participantes, sis.leiloes, <<>>, "LeilaoInvalido",
                  "nome_ja_existe", "", "", NoPart)}
    ELSE IF \/ nome = "" \/ nome = NoNome
            \/ lance_minimo = NoNum \/ lance_minimo <= 0
            \/ data_inicio = NoNum \/ data_termino = NoNum
            \/ data_inicio > data_termino
    THEN {Outcome(sis.participantes, sis.leiloes, <<>>, "ValueError",
                  "", "", "", NoPart)}
    ELSE { LET novo_leilao == NovoLeilao(nome, lance_minimo, data_inicio,
                                         data_termino, agora)
           IN Outcome(sis.participantes, Append(sis.leiloes, novo_leilao),
                      <<agora>>, "", "", "", novo_leilao.estado, NoPart)
           : agora \in Times }

\* Mutant: the name is not looked up before the auction is created
CadastrarLeilao_SemNomeUnico(sis, nome, lance_minimo, data_inicio, data_termino) ==
    IF DadosInvalidos(nome, lance_minimo, data_inicio, data_termino)
    THEN {Outcome(sis.participantes, sis.leiloes, <<>>, "ValueError",
                  "", "", "", NoPart)}
    ELSE { LET novo_leilao == NovoLeilao(nome, lance_minimo, data_inicio,
                                         data_termino, agora)
           IN Outcome(sis.participantes, Append(sis.leiloes, novo_leilao),
                      <<agora>>, "", "", "", novo_leilao.estado, NoPart)
           : agora \in Times }

\* Mutant: the auction is appended before Leilao.__init__ has validated it
CadastrarLeilao_AnexaAntes(sis, nome, lance_minimo, data_inicio, data_termino) ==
    IF BuscarLeilaoPorNome(sis.leiloes, nome) # 0
    THEN {Outcome(sis.participantes, sis.leiloes, <<>>, "LeilaoInvalido",
                  "nome_ja_existe", "", "", NoPart)}
    ELSE { LET novo_leilao == NovoLeilao(nome, lance_minimo, data_inicio,
                                         data_termino, agora)
           IN IF DadosInvalidos(nome, lance_minimo, data_inicio, data_termino)
              THEN Outcome(sis.participantes, Append(sis.leiloes, novo_leilao),
                           <<>>, "ValueError", "", "", "", NoPart)
              ELSE Outcome(sis.participantes, Append(sis.leiloes, novo_leilao),
                           <<agora>>, "", "", "", novo_leilao.estado, NoPart)
           : agora \in Times }

\* SistemaLeiloes.cadastrar_leilao. The name is looked up first, then
\* Leilao.__init__ validates. The clock is read once, by the atualizar_estado
\* call that ends Leilao.__init__
CadastrarLeilao(sis, nome, lance_minimo, data_inicio, data_termino) ==
    IF BuscarLeilaoPorNome(sis.leiloes, nome) # 0
    THEN {Outcome(sis.participantes, sis.leiloes, <<>>, "LeilaoInvalido",
                  "nome_ja_existe", "", "", NoPart)}
    ELSE IF DadosInvalidos(nome, lance_minimo, data_inicio, data_termino)
    THEN {Outcome(sis.participantes, sis.leiloes, <<>>, "ValueError",
                  "", "", "", NoPart)}
    ELSE { LET novo_leilao == NovoLeilao(nome, lance_minimo, data_inicio,
                                         data_termino, agora)
           IN Outcome(sis.participantes, Append(sis.leiloes, novo_leilao),
                      <<agora>>, "", "", "", novo_leilao.estado, NoPart)
           : agora \in Times }

\* The estado property read on the auction buscar_leilao_por_nome returns
\* (None when it returns None): one atualizar_estado call
Estado(sis, nome) ==
    LET i == BuscarLeilaoPorNome(sis.leiloes, nome)
    IN IF i = 0
       THEN {Outcome(sis.participantes, sis.leiloes, <<>>, "", "", "", "None", NoPart)}
       ELSE { LET l1 == AtualizarEstado(sis.leiloes[i], agora)
              IN Outcome(sis.participantes, [sis.leiloes EXCEPT ![i] = l1],
                         <<agora>>, "", "", "", l1.estado, NoPart)
              : agora \in Times }

\* SistemaLeiloes.propor_lance_sistema. The clock is read only by
\* Leilao.propor_lance, three times (see ProporLance).
ProporLanceSistema(sis, cpf, nome, valor) ==
    LET achados == BuscarParticipantePorCpf(sis.participantes, cpf)
        i == BuscarLeilaoPorNome(sis.leiloes, nome)
    IN IF achados = {}
       THEN {Outcome(sis.participantes, sis.leiloes, <<>>, "ParticipanteInvalido",
                     "nao_encontrado", "", "", NoPart)}
       ELSE IF i = 0
       THEN {Outcome(sis.participantes, sis.leiloes, <<>>, "LeilaoInvalido",
                     "nao_encontrado", "", "", NoPart)}
       ELSE IF valor <= 0
       THEN {Outcome(sis.participantes, sis.leiloes, <<>>, "ValueError",
                     "", "", "", NoPart)}
       ELSE { LET participante == Ref(CHOOSE p \in achados : TRUE)
                  novo_lance == [participante |-> participante, valor |-> valor]
                  r == ProporLance(sis.leiloes[i], novo_lance, ts)
              IN Outcome(IF r.aceito
                         THEN MarcarComoOfertante(sis.participantes, participante)
                         ELSE sis.participantes,
                         [sis.leiloes EXCEPT ![i] = r.leilao],
                         ts, r.exc, r.motivo, r.visto, r.estado, NoPart)
              : ts \in [1 .. 3 -> Times] }

\* Leilao.propor_lance called on the registered auction nome with an argument
\* that is not a Lance (no call when no such auction is registered)
ProporLanceObjeto(sis, nome) ==
    LET i == BuscarLeilaoPorNome(sis.leiloes, nome)
    IN IF i = 0 THEN {}
       ELSE { LET r == ProporLance(sis.leiloes[i], NaoLance, ts)
              IN Outcome(sis.participantes, [sis.leiloes EXCEPT ![i] = r.leilao],
                         ts, r.exc, r.motivo, r.visto, r.estado, NoPart)
              : ts \in [1 .. 3 -> Times] }

\* SistemaLeiloes.listar_lances_leilao: ret is the lances view
ListarLancesLeilao(sis, nome) ==
    LET i == BuscarLeilaoPorNome(sis.leiloes, nome)
    IN IF i = 0
       THEN {Outcome(sis.participantes, sis.leiloes, <<>>, "LeilaoInvalido",
                     "nao_encontrado", "", "", <<>>)}
       ELSE {Outcome(sis.participantes, sis.leiloes, <<>>, "", "", "", "",
                     LancesOrdenados(sis.leiloes[i].lances))}

\* SistemaLeiloes.obter_maior_lance_leilao: ret is maior_lance (NoLance for None)
ObterMaiorLanceLeilao(sis, nome) ==
    LET i == BuscarLeilaoPorNome(sis.leiloes, nome)
    IN IF i = 0
       THEN {Outcome(sis.participantes, sis.leiloes, <<>>, "LeilaoInvalido",
                     "nao_encontrado", "", "", NoLance)}
       ELSE {Outcome(sis.participantes, sis.leiloes, <<>>, "", "", "", "",
                     IF sis.leiloes[i].lances = <<>> THEN NoLance
                     ELSE MaiorLance(sis.leiloes[i].lances))}

\* SistemaLeiloes.obter_menor_lance_leilao: ret is menor_lance (NoLance for None)
ObterMenorLanceLeilao(sis, nome) ==
    LET i == BuscarLeilaoPorNome(sis.leiloes, nome)
    IN IF i = 0
       THEN {Outcome(sis.participantes, sis.leiloes, <<>>, "LeilaoInvalido",
                     "nao_encontrado", "", "", NoLance)}
       ELSE {Outcome(sis.participantes, sis.leiloes, <<>>, "", "", "", "",
                     IF sis.leiloes[i].lances = <<>> THEN NoLance
                     ELSE MenorLance(sis.leiloes[i].lances))}

\* SistemaLeiloes.excluir_leilao. t1: the clock at the estado read of
\* pode_ser_alterado_ou_excluido; t2: at the estado read that builds the message
ExcluirLeilao(sis, nome) ==
    LET i == BuscarLeilaoPorNome(sis.leiloes, nome)
    IN IF i = 0
       THEN {Outcome(sis.participantes, sis.leiloes, <<>>, "LeilaoInvalido",
                     "nao_encontrado", "", "", NoPart)}
       ELSE UNION {
            LET l1 == AtualizarEstado(sis.leiloes[i], t1)
            IN IF ~PodeSerAlteradoOuExcluido(l1)
               THEN { LET l2 == AtualizarEstado(l1, t2)
                      IN Outcome(sis.participantes, [sis.leiloes EXCEPT ![i] = l2],
                                 <<t1, t2>>, "LeilaoInvalido", "nao_pode",
                                 l1.estado, l2.estado, NoPart)
                      : t2 \in Times }
               ELSE {Outcome(sis.participantes, Remover(sis.leiloes, i), <<t1>>,
                             "", "", l1.estado, "", NoPart)}
            : t1 \in Times }

\* Mutant: the new name is assigned before the other values are validated
AlterarLeilao_NomeAntes(sis, nome_atual, novo_nome, novo_lance_minimo, nova_data_inicio, nova_data_termino) ==
    LET i == BuscarLeilaoPorNome(sis.leiloes, nome_atual)
    IN IF i = 0
       THEN {Outcome(sis.participantes, sis.leiloes, <<>>, "LeilaoInvalido",
                     "nao_encontrado", "", "", NoPart)}
       ELSE UNION {
            LET l1 == AtualizarEstado(sis.leiloes[i], t1)
                ls1 == [sis.leiloes EXCEPT ![i] = l1]
                temp_nome == IF novo_nome # NoNome THEN novo_nome ELSE l1.nome
                temp_lance_minimo == IF novo_lance_minimo # NoNum
                                     THEN novo_lance_minimo ELSE l1.lance_minimo
                temp_data_inicio == IF nova_data_inicio # NoNum
                                    THEN nova_data_inicio ELSE l1.data_inicio
                temp_data_termino == IF nova_data_termino # NoNum
                                     THEN nova_data_termino ELSE l1.data_termino
            IN IF ~PodeSerAlteradoOuExcluido(l1)
               THEN { LET l2 == AtualizarEstado(l1, t2)
                      IN Outcome(sis.participantes, [sis.leiloes EXCEPT ![i] = l2],
                                 <<t1, t2>>, "LeilaoInvalido", "nao_pode",
                                 l1.estado, l2.estado, NoPart)
                      : t2 \in Times }
               ELSE IF /\ novo_nome # NoNome
                       /\ novo_nome # nome_atual
                       /\ BuscarLeilaoPorNome(ls1, novo_nome) # 0
               THEN {Outcome(sis.participantes, ls1, <<t1>>, "LeilaoInvalido",
                             "nome_ja_existe", l1.estado, "", NoPart)}
               ELSE IF \/ temp_nome = "" \/ temp_nome = NaoNome
                       \/ temp_lance_minimo = NaoNum \/ temp_lance_minimo <= 0
                       \/ temp_data_inicio = NaoNum \/ temp_data_termino = NaoNum
                       \/ temp_data_inicio >= temp_data_termino
               THEN {Outcome(sis.participantes,
                             [ls1 EXCEPT ![i].nome =
                                 IF temp_nome \in {"", NaoNome} THEN @ ELSE temp_nome],
                             <<t1>>, "ValueError", "", l1.estado, "", NoPart)}
               ELSE { LET l2 == AtualizarEstado(
                                    [l1 EXCEPT !.nome = temp_nome,
                                               !.lance_minimo = temp_lance_minimo,
                                               !.data_inicio = temp_data_inicio,
                                               !.data_termino = temp_data_termino],
                                    t2)
                      IN Outcome(sis.participantes, [sis.leiloes EXCEPT ![i] = l2],
                                 <<t1, t2>>, "", "", l1.estado, l2.estado, NoPart)
                      : t2 \in Times }
            : t1 \in Times }

\* SistemaLeiloes.alterar_leilao. NoNome / NoNum: the argument is None (keep);
\* NaoNome / NaoNum: it is of the wrong type.
\* t1: the clock at the estado read of pode_ser_alterado_ou_excluido; t2: at
\* the estado read that builds the message, or else at the final
\* atualizar_estado call
AlterarLeilao(sis, nome_atual, novo_nome, novo_lance_minimo, nova_data_inicio, nova_data_termino) ==
    LET i == BuscarLeilaoPorNome(sis.leiloes, nome_atual)
    IN IF i = 0
       THEN {Outcome(sis.participantes, sis.leiloes, <<>>, "LeilaoInvalido",
                     "nao_encontrado", "", "", NoPart)}
       ELSE UNION {
            LET l1 == AtualizarEstado(sis.leiloes[i], t1)
                ls1 == [sis.leiloes EXCEPT ![i] = l1]
                temp_nome == IF novo_nome # NoNome THEN novo_nome ELSE l1.nome
                temp_lance_minimo == IF novo_lance_minimo # NoNum
                                     THEN novo_lance_minimo ELSE l1.lance_minimo
                temp_data_inicio == IF nova_data_inicio # NoNum
                                    THEN nova_data_inicio ELSE l1.data_inicio
                temp_data_termino == IF nova_data_termino # NoNum
                                     THEN nova_data_termino ELSE l1.data_termino
            IN IF ~PodeSerAlteradoOuExcluido(l1)
               THEN { LET l2 == AtualizarEstado(l1, t2)
                      IN Outcome(sis.participantes, [sis.leiloes EXCEPT ![i] = l2],
                                 <<t1, t2>>, "LeilaoInvalido", "nao_pode",
                                 l1.estado, l2.estado, NoPart)
                      : t2 \in Times }
               ELSE IF /\ novo_nome # NoNome
                       /\ novo_nome # nome_atual
                       /\ BuscarLeilaoPorNome(ls1, novo_nome) # 0
               THEN {Outcome(sis.participantes, ls1, <<t1>>, "LeilaoInvalido",
                             "nome_ja_existe", l1.estado, "", NoPart)}
               ELSE IF \/ temp_nome = "" \/ temp_nome = NaoNome
                       \/ temp_lance_minimo = NaoNum \/ temp_lance_minimo <= 0
                       \/ temp_data_inicio = NaoNum \/ temp_data_termino = NaoNum
                       \/ temp_data_inicio >= temp_data_termino
               THEN {Outcome(sis.participantes, ls1, <<t1>>, "ValueError",
                             "", l1.estado, "", NoPart)}
               ELSE { LET l2 == AtualizarEstado(
                                    [l1 EXCEPT !.nome = temp_nome,
                                               !.lance_minimo = temp_lance_minimo,
                                               !.data_inicio = temp_data_inicio,
                                               !.data_termino = temp_data_termino],
                                    t2)
                      IN Outcome(sis.participantes, [sis.leiloes EXCEPT ![i] = l2],
                                 <<t1, t2>>, "", "", l1.estado, l2.estado, NoPart)
                      : t2 \in Times }
            : t1 \in Times }

\* SistemaLeiloes.obter_ganhador_leilao: the clock is read once, by the
\* estado read of Leilao.ganhador
ObterGanhadorLeilao(sis, nome) ==
    LET i == BuscarLeilaoPorNome(sis.leiloes, nome)
    IN IF i = 0
       THEN {Outcome(sis.participantes, sis.leiloes, <<>>, "LeilaoInvalido",
                     "nao_encontrado", "", "", NoPart)}
       ELSE { LET l1 == AtualizarEstado(sis.leiloes[i], agora)
              IN Outcome(sis.participantes, [sis.leiloes EXCEPT ![i] = l1],
                         <<agora>>, "", "", "", l1.estado, Ganhador(l1))
              : agora \in Times }

\* SistemaLeiloes.notificar_ganhador. motivo names the branch taken: "email"
\* (returns True), "aviso_sem_maior_lance", "aviso_sem_ganhador",
\* "info_nao_finalizado", "nada" (all return False). t1: the clock at the
\* estado read of Leilao.ganhador; t2, t3: at the estado reads of the two elif
\* conditions; t4: at the estado read that builds the INFO message
NotificarGanhador(sis, nome) ==
    LET i == BuscarLeilaoPorNome(sis.leiloes, nome)
        Fim(l, ts, motivo, estado, ret) ==
            Outcome(sis.participantes, [sis.leiloes EXCEPT ![i] = l], ts, "",
                    motivo, "", estado, ret)
    IN IF i = 0
       THEN {Outcome(sis.participantes, sis.leiloes, <<>>, "LeilaoInvalido",
                     "nao_encontrado", "", "", NoPart)}
       ELSE UNION {
            LET l1 == AtualizarEstado(sis.leiloes[i], t1)
                ganhador == Ganhador(l1)
            IN IF ganhador # NoPart
               THEN IF l1.lances # <<>>
                    THEN {Fim(l1, <<t1>>, "email", l1.estado, ganhador)}
                    ELSE {Fim(l1, <<t1>>, "aviso_sem_maior_lance", l1.estado, ganhador)}
               ELSE UNION {
                    LET l2 == AtualizarEstado(l1, t2)
                    IN IF l2.estado = "FINALIZADO"
                       THEN {Fim(l2, <<t1, t2>>, "aviso_sem_ganhador", l2.estado, NoPart)}
                       ELSE UNION {
                            LET l3 == AtualizarEstado(l2, t3)
                            IN IF l3.estado # "FINALIZADO"
                               THEN { LET l4 == AtualizarEstado(l3, t4)
                                      IN Fim(l4, <<t1, t2, t3, t4>>,
                                             "info_nao_finalizado", l4.estado, NoPart)
                                      : t4 \in Times }
                               ELSE {Fim(l3, <<t1, t2, t3>>, "nada", l3.estado, NoPart)}
                            : t3 \in Times }
                    : t2 \in Times }
            : t1 \in Times }

\* ----------------------------------------------------------------- actions
\* The threads that call propor_lance_sistema on the one SistemaLeiloes
Threads == {1, 2}

\* A thread with no propor_lance call past its check
Ocioso == [nome |-> NoNome, lance |-> NoLance]

\* SistemaLeiloes.__init__
Init ==
    /\ participantes = {}
    /\ leiloes = <<>>
    /\ relogio = 0
    /\ emVoo = [t \in Threads |-> Ocioso]

\* The call ends with outcome r
Instala(r) ==
    /\ participantes' = r.sis.participantes
    /\ leiloes' = r.sis.leiloes
    /\ UNCHANGED <<relogio, emVoo>>

CallCadastrarParticipante ==
    \E cpf \in Cpfs, email \in Emails :
        \E r \in CadastrarParticipante(Sis, cpf, email) : Instala(r)

CallExcluirParticipante ==
    \E cpf \in Cpfs : \E r \in ExcluirParticipante(Sis, cpf) : Instala(r)

CallCadastrarLeilao ==
    \E nome \in Nomes \cup {""}, lance_minimo \in Valores,
       data_inicio \in Times, data_termino \in Times :
        \E r \in CadastrarLeilao(Sis, nome, lance_minimo, data_inicio, data_termino) :
            Instala(r)

CallEstado ==
    \E nome \in Nomes : \E r \in Estado(Sis, nome) : Instala(r)

CallProporLanceSistema ==
    \E cpf \in Cpfs, nome \in Nomes, valor \in Valores :
        \E r \in ProporLanceSistema(Sis, cpf, nome, valor) : Instala(r)

CallExcluirLeilao ==
    \E nome \in Nomes : \E r \in ExcluirLeilao(Sis, nome) : Instala(r)

CallAlterarLeilao ==
    \E sis2 \in { r.sis : r \in UNION {
                     AlterarLeilao(Sis, nome_atual, novo_nome, novo_lance_minimo,
                                   nova_data_inicio, nova_data_termino) :
                         nome_atual \in Nomes,
                         novo_nome \in Nomes \cup {"", NoNome},
                         novo_lance_minimo \in Valores \cup {NoNum},
                         nova_data_inicio \in Times \cup {NoNum},
                         nova_data_termino \in Times \cup {NoNum} } } :
        Instala([sis |-> sis2])

CallObterGanhadorLeilao ==
    \E nome \in Nomes : \E r \in ObterGanhadorLeilao(Sis, nome) : Instala(r)

CallNotificarGanhador ==
    \E nome \in Nomes : \E r \in NotificarGanhador(Sis, nome) : Instala(r)

CallProporLanceObjeto ==
    \E nome \in Nomes : \E r \in ProporLanceObjeto(Sis, nome) : Instala(r)

CallListarLancesLeilao ==
    \E nome \in Nomes : \E r \in ListarLancesLeilao(Sis, nome) : Instala(r)

CallObterMaiorLanceLeilao ==
    \E nome \in Nomes : \E r \in ObterMaiorLanceLeilao(Sis, nome) : Instala(r)

CallObterMenorLanceLeilao ==
    \E nome \in Nomes : \E r \in ObterMenorLanceLeilao(Sis, nome) : Instala(r)

Next ==
    \/ CallCadastrarParticipante
    \/ CallExcluirParticipante
    \/ CallCadastrarLeilao
    \/ CallEstado
    \/ CallProporLanceSistema
    \/ CallExcluirLeilao
    \/ CallAlterarLeilao
    \/ CallObterGanhadorLeilao
    \/ CallNotificarGanhador
    \/ CallProporLanceObjeto
    \/ CallListarLancesLeilao
    \/ CallObterMaiorLanceLeilao
    \/ CallObterMenorLanceLeilao

Spec == Init /\ [][Next]_vars

\* ------------------------------------------------------------------ claims
Idx == 1 .. Len(leiloes)
Lances == 1 .. MaxValor          \* the amounts a Lance can hold (valor > 0)
NaoAberto == {"INATIVO", "EXPIRADO", "FINALIZADO"}
TresMotivos == {"abaixo_do_minimo", "nao_maior_que_ultimo", "dois_lances_seguidos"}

\* The registered participant under a cpf, as propor_lance_sistema finds it
Registrado(cpf) == \E p \in participantes : p.cpf = cpf
Bidder(cpf) == Ref(CHOOSE p \in participantes : p.cpf = cpf)

\* The state the check of propor_lance decides on, and the state derived
\* inside _pode_receber_lance, for the clock readings ts
NoCheck(l, ts) == AtualizarEstado(AtualizarEstado(l, ts[1]), ts[2])
NaAdmissao(l, ts) == AtualizarEstado(NoCheck(l, ts), ts[3])

\* C1: in every reachable state (after any propor_lance calls, accepted or
\* rejected) the amounts of a bid log strictly increase in insertion order and
\* no two consecutive bids have equal bidders (Participante.__eq__).
C1_LogCrescenteSemConsecutivo ==
    \A i \in Idx :
        LET lg == leiloes[i].lances
        IN \A k \in 1 .. Len(lg) - 1 :
               /\ lg[k].valor < lg[k + 1].valor
               /\ ~ParticipanteEq(lg[k].participante, lg[k + 1].participante)

\* C1 witness: a log of two admitted bids
C1_Witness == \E i \in Idx : Len(leiloes[i].lances) >= 2

\* C2: once an auction is FINALIZADO, every step (every operation, whatever
\* the clock returns) leaves it registered, FINALIZADO and with the same
\* winner; a winner, once assigned, is never assigned again.
C2_FinalizadoPermanente ==
    [][\A i \in Idx :
         (leiloes[i].estado = "FINALIZADO" \/ leiloes[i].ganhador # NoPart) =>
            \E j \in 1 .. Len(leiloes') :
                /\ leiloes'[j].nome = leiloes[i].nome
                /\ leiloes'[j].estado = leiloes[i].estado
                /\ leiloes'[j].ganhador = leiloes[i].ganhador]_vars

\* C2 witness: a finalized auction with a winner whose window starts after
\* the earliest clock value (so that it is also observed before data_inicio)
C2_Witness ==
    \E i \in Idx : /\ leiloes[i].estado = "FINALIZADO"
                   /\ leiloes[i].ganhador # NoPart
                   /\ leiloes[i].data_inicio > 0

\* C3: on an auction that is not FINALIZADO, atualizar_estado at clock value
\* agora yields INATIVO iff agora < data_inicio, ABERTO iff data_inicio <=
\* agora < data_termino, FINALIZADO iff agora >= data_termino with a non-empty
\* log, EXPIRADO iff agora >= data_termino with an empty log.
C3_TransicaoPorRelogio ==
    \A i \in Idx : \A agora \in Times :
        LET l == leiloes[i]
            e == AtualizarEstado(l, agora).estado
        IN l.estado # "FINALIZADO" =>
            /\ e = "INATIVO" <=> agora < l.data_inicio
            /\ e = "ABERTO" <=> (l.data_inicio <= agora /\ agora < l.data_termino)
            /\ e = "FINALIZADO" <=> (agora >= l.data_termino /\ l.lances # <<>>)
            /\ e = "EXPIRADO" <=> (agora >= l.data_termino /\ l.lances = <<>>)

\* C3 witness: an open auction with a bid (each of the derivations applies to it)
C3_Witness ==
    \E i \in Idx : /\ leiloes[i].estado = "ABERTO"
                   /\ leiloes[i].lances # <<>>
                   /\ leiloes[i].data_inicio > 0

\* C4: the winner obter_ganhador_leilao (Leilao.ganhador) reports is defined
\* iff the auction's state, re-derived by the call, is FINALIZADO, and then it
\* is the bidder of a maximum-amount bid of the log.
C4_GanhadorSseFinalizado ==
    \A nome \in Nomes : \A r \in ObterGanhadorLeilao(Sis, nome) :
        LET i == BuscarLeilaoPorNome(leiloes, nome)
            l == r.sis.leiloes[i]
        IN i # 0 =>
            /\ r.ret # NoPart <=> l.estado = "FINALIZADO"
            /\ r.ret # NoPart =>
                  \E k \in 1 .. Len(l.lances) :
                      /\ l.lances[k].participante = r.ret
                      /\ \A j \in 1 .. Len(l.lances) :
                             l.lances[j].valor <= l.lances[k].valor

\* C4 witness: a finalized auction with two bids and its winner
C4_Witness ==
    \E i \in Idx : /\ leiloes[i].estado = "FINALIZADO"
                   /\ Len(leiloes[i].lances) >= 2
                   /\ \E r \in ObterGanhadorLeilao(Sis, leiloes[i].nome) :
                          r.ret = leiloes[i].lances[2].participante

\* C5: propor_lance with a well-formed bid on an auction whose state, as
\* derived by the check, is INATIVO, EXPIRADO or FINALIZADO raises
\* LeilaoInvalido and leaves the bid log and every has-bid flag unchanged.
C5_NaoAbertoRecusa ==
    \A cpf \in Cpfs, nome \in Nomes, valor \in Lances :
        \A r \in ProporLanceSistema(Sis, cpf, nome, valor) :
            LET i == BuscarLeilaoPorNome(leiloes, nome)
            IN (Registrado(cpf) /\ i # 0
                /\ NoCheck(leiloes[i], r.ts).estado \in NaoAberto) =>
                   /\ r.exc = "LeilaoInvalido"
                   /\ r.sis.leiloes[i].lances = leiloes[i].lances
                   /\ r.sis.participantes = participantes

\* C5 witness: a bid proposed on a finalized, an expired and an inactive auction
C5_Witness ==
    \E cpf \in Cpfs, nome \in Nomes :
        LET i == BuscarLeilaoPorNome(leiloes, nome)
        IN /\ i # 0
           /\ Registrado(cpf)
           /\ leiloes[i].estado = "FINALIZADO"
           /\ \E p \in participantes : p.cpf = cpf /\ ~p.possui_lances
           /\ \E r \in ProporLanceSistema(Sis, cpf, nome, MaxValor) :
                  r.exc = "LeilaoInvalido" /\ r.estado = "FINALIZADO"

\* C6: for a well-formed bid on an auction that is ABERTO (at the check and
\* inside _pode_receber_lance) the rejection reasons have a fixed precedence:
\* valor < lance_minimo gives "below minimum" whatever else holds; otherwise,
\* on a non-empty log, valor <= the last bid's gives "not greater than last
\* bid" whoever bids; otherwise a bidder equal to the last one gives
\* "consecutive bid"; a rejection reports exactly one of the three, and a bid
\* none of them applies to is not rejected.
C6_PrecedenciaDosMotivos ==
    \A cpf \in Cpfs, nome \in Nomes, valor \in Lances :
        \A r \in ProporLanceSistema(Sis, cpf, nome, valor) :
            LET i == BuscarLeilaoPorNome(leiloes, nome)
                l == leiloes[i]
                abaixo == valor < l.lance_minimo
                naoMaior == /\ ~abaixo
                            /\ l.lances # <<>>
                            /\ valor <= l.lances[Len(l.lances)].valor
                seguido == /\ ~abaixo /\ ~naoMaior
                           /\ l.lances # <<>>
                           /\ ParticipanteEq(Bidder(cpf),
                                             l.lances[Len(l.lances)].participante)
            IN (Registrado(cpf) /\ i # 0
                /\ NoCheck(l, r.ts).estado = "ABERTO"
                /\ NaAdmissao(l, r.ts).estado = "ABERTO") =>
                   /\ abaixo => (r.exc = "LanceInvalido"
                                 /\ r.motivo = "abaixo_do_minimo")
                   /\ naoMaior => (r.exc = "LanceInvalido"
                                   /\ r.motivo = "nao_maior_que_ultimo")
                   /\ seguido => (r.exc = "LanceInvalido"
                                  /\ r.motivo = "dois_lances_seguidos")
                   /\ r.exc = "LanceInvalido" => r.motivo \in TresMotivos
                   /\ (~abaixo /\ ~naoMaior /\ ~seguido) => r.exc = ""

\* C6 witness: an open auction whose last bidder proposes an amount below the
\* minimum (all three conditions hold at once) and is told "below minimum"
C6_Witness ==
    \E cpf \in Cpfs, nome \in Nomes :
        LET i == BuscarLeilaoPorNome(leiloes, nome)
        IN /\ i # 0
           /\ Registrado(cpf)
           /\ leiloes[i].estado = "ABERTO"
           /\ leiloes[i].lances # <<>>
           /\ UltimoLance(leiloes[i].lances).participante = Bidder(cpf)
           /\ leiloes[i].lance_minimo > 1
           /\ \E r \in ProporLanceSistema(Sis, cpf, nome, 1) :
                  r.exc = "LanceInvalido" /\ r.motivo = "abaixo_do_minimo"

\* C7 (as claimed; refuted): in every reachable state every bid of a log has
\* an amount >= the auction's current lance_minimo.
C7_LancesAcimaDoMinimo ==
    \A i \in Idx : \A k \in 1 .. Len(leiloes[i].lances) :
        leiloes[i].lances[k].valor >= leiloes[i].lance_minimo

\* C8: on an auction that is ABERTO (at the check and inside
\* _pode_receber_lance) with an empty log, every well-formed bid with valor >=
\* lance_minimo, valor = lance_minimo included, is admitted, whoever bids.
C8_PrimeiroLanceAdmitido ==
    \A cpf \in Cpfs, nome \in Nomes, valor \in Lances :
        \A r \in ProporLanceSistema(Sis, cpf, nome, valor) :
            LET i == BuscarLeilaoPorNome(leiloes, nome)
                l == leiloes[i]
            IN (Registrado(cpf) /\ i # 0
                /\ NoCheck(l, r.ts).estado = "ABERTO"
                /\ NaAdmissao(l, r.ts).estado = "ABERTO"
                /\ l.lances = <<>>
                /\ valor >= l.lance_minimo) =>
                   /\ r.exc = ""
                   /\ r.sis.leiloes[i].lances =
                          <<[participante |-> Bidder(cpf), valor |-> valor]>>

\* C8 witness: an open auction whose only bid is exactly the minimum
C8_Witness ==
    \E i \in Idx : /\ leiloes[i].estado = "ABERTO"
                   /\ Len(leiloes[i].lances) = 1
                   /\ leiloes[i].lances[1].valor = leiloes[i].lance_minimo
                   /\ leiloes[i].lance_minimo > 1

\* C9: a successful propor_lance appends exactly the proposed bid at the end
\* of the log, sets the bidder's has-bid flag (pode_ser_excluido is false
\* afterwards) and changes neither the other participants, nor the auction's
\* nome, lance_minimo, dates and winner, nor any other auction.
C9_EfeitoDoLanceAceito ==
    \A cpf \in Cpfs, nome \in Nomes, valor \in Lances :
        \A r \in ProporLanceSistema(Sis, cpf, nome, valor) :
            LET i == BuscarLeilaoPorNome(leiloes, nome)
                l == leiloes[i]
                l1 == r.sis.leiloes[i]
            IN r.exc = "" =>
                /\ i # 0 /\ Registrado(cpf)
                /\ l1.lances = Append(l.lances,
                                      [participante |-> Bidder(cpf), valor |-> valor])
                /\ UltimoLance(l1.lances).valor = valor
                /\ \A p \in r.sis.participantes : p.cpf = cpf => ~PodeSerExcluido(p)
                /\ \A p \in participantes :
                       p.cpf # cpf => p \in r.sis.participantes
                /\ {Ref(p) : p \in r.sis.participantes} =
                       {Ref(p) : p \in participantes}
                /\ l1.nome = l.nome
                /\ l1.lance_minimo = l.lance_minimo
                /\ l1.data_inicio = l.data_inicio
                /\ l1.data_termino = l.data_termino
                /\ l1.ganhador = l.ganhador
                /\ Len(r.sis.leiloes) = Len(leiloes)
                /\ \A j \in Idx : j # i => r.sis.leiloes[j] = leiloes[j]

\* C9 witness: a second bid was admitted, by a bidder now flagged, while the
\* other registered bidder can still bid
C9_Witness ==
    \E i \in Idx :
        /\ Len(leiloes[i].lances) = 1
        /\ \E p \in participantes :
               /\ Ref(p) = leiloes[i].lances[1].participante
               /\ ~PodeSerExcluido(p)
        /\ \E cpf \in Cpfs :
               /\ \E p \in participantes : p.cpf = cpf /\ PodeSerExcluido(p)
               /\ \E r \in ProporLanceSistema(Sis, cpf, leiloes[i].nome, MaxValor) :
                      r.exc = ""

\* C10 (as claimed; refuted): excluir_leilao removes a registered auction only
\* if its state, as derived by the call, is INATIVO or EXPIRADO; if it is
\* ABERTO or FINALIZADO the call raises LeilaoInvalido naming that state and
\* the auction stays registered.
C10_ExcluirSoInativoOuExpirado ==
    \A nome \in Nomes : \A r \in ExcluirLeilao(Sis, nome) :
        LET i == BuscarLeilaoPorNome(leiloes, nome)
            visto == AtualizarEstado(leiloes[i], r.ts[1]).estado
        IN i # 0 =>
            /\ r.exc = "" => visto \in {"INATIVO", "EXPIRADO"}
            /\ visto \in {"ABERTO", "FINALIZADO"} =>
                  /\ r.exc = "LeilaoInvalido"
                  /\ r.estado = visto
                  /\ Len(r.sis.leiloes) = Len(leiloes)
                  /\ BuscarLeilaoPorNome(r.sis.leiloes, nome) = i

\* What alterar_leilao may change of an auction
Dados(l) == <<l.nome, l.lance_minimo, l.data_inicio, l.data_termino>>
NomesOuNone == Nomes \cup {"", NoNome}
ValoresOuNone == Valores \cup {NoNum}
TimesOuNone == Times \cup {NoNum}

\* C11 (as claimed; refuted): alterar_leilao changes a registered auction only
\* if its state, as derived by the call, is INATIVO or EXPIRADO; if it is
\* ABERTO or FINALIZADO the call raises LeilaoInvalido naming that state and
\* nome, lance_minimo, data_inicio and data_termino are unchanged.
C11_AlterarSoInativoOuExpirado ==
    \A nome \in Nomes, novo_nome \in NomesOuNone, novo_lance_minimo \in ValoresOuNone,
       nova_data_inicio \in TimesOuNone, nova_data_termino \in TimesOuNone :
        \A r \in AlterarLeilao(Sis, nome, novo_nome, novo_lance_minimo,
                               nova_data_inicio, nova_data_termino) :
            LET i == BuscarLeilaoPorNome(leiloes, nome)
                visto == AtualizarEstado(leiloes[i], r.ts[1]).estado
            IN i # 0 =>
                /\ Dados(r.sis.leiloes[i]) # Dados(leiloes[i]) =>
                       visto \in {"INATIVO", "EXPIRADO"}
                /\ visto \in {"ABERTO", "FINALIZADO"} =>
                      /\ r.exc = "LeilaoInvalido"
                      /\ r.estado = visto
                      /\ Dados(r.sis.leiloes[i]) = Dados(leiloes[i])

\* C12: every registered auction has data_inicio < data_termino; a creation
\* with data_inicio >= data_termino fails and registers nothing, and an
\* alteration whose resulting window (the new dates where given, the current
\* ones elsewhere) has data_inicio >= data_termino fails and changes nothing.
C12_InicioAntesDoTermino ==
    /\ \A i \in Idx : leiloes[i].data_inicio < leiloes[i].data_termino
    /\ \A nome \in Nomes, lance_minimo \in Lances, data_inicio \in Times,
          data_termino \in Times :
           data_inicio >= data_termino =>
               \A r \in CadastrarLeilao(Sis, nome, lance_minimo, data_inicio,
                                        data_termino) :
                   r.exc # "" /\ r.sis = Sis
    /\ \A nome \in Nomes, novo_nome \in NomesOuNone,
          novo_lance_minimo \in ValoresOuNone,
          nova_data_inicio \in TimesOuNone, nova_data_termino \in TimesOuNone :
           LET i == BuscarLeilaoPorNome(leiloes, nome)
               ini == IF nova_data_inicio # NoNum THEN nova_data_inicio
                      ELSE leiloes[i].data_inicio
               fim == IF nova_data_termino # NoNum THEN nova_data_termino
                      ELSE leiloes[i].data_termino
           IN (i # 0 /\ ini >= fim) =>
               \A r \in AlterarLeilao(Sis, nome, novo_nome, novo_lance_minimo,
                                      nova_data_inicio, nova_data_termino) :
                   r.exc # "" /\ Dados(r.sis.leiloes[i]) = Dados(leiloes[i])

\* C12 witness: an alterable auction on which moving only data_inicio up to
\* data_termino is refused for the window
C12_Witness ==
    \E i \in Idx :
        /\ leiloes[i].estado = "INATIVO"
        /\ leiloes[i].lances = <<>>
        /\ \E r \in AlterarLeilao(Sis, leiloes[i].nome, NoNome, NoNum,
                                  leiloes[i].data_termino, NoNum) :
               r.exc = "ValueError"

\* C13: for a fixed clock value, atualizar_estado applied twice yields the
\* same state and winner as applied once, and the bid log is the one before.
C13_AtualizarIdempotente ==
    \A i \in Idx : \A agora \in Times :
        LET l == leiloes[i]
            uma == AtualizarEstado(l, agora)
            duas == AtualizarEstado(uma, agora)
        IN /\ duas.estado = uma.estado
           /\ duas.ganhador = uma.ganhador
           /\ Ganhador(duas) = Ganhador(uma)
           /\ uma.lances = l.lances
           /\ duas.lances = l.lances

\* C13 witness: an auction stored as INATIVO that a derivation past its end
\* moves to FINALIZADO
C13_Witness ==
    \E i \in Idx : \E agora \in Times :
        /\ leiloes[i].estado = "INATIVO"
        /\ AtualizarEstado(leiloes[i], agora).estado = "FINALIZADO"

\* C14: an auction stored as EXPIRADO is re-derived ABERTO when observed at a
\* clock value in [data_inicio, data_termino) and INATIVO when observed before
\* data_inicio; re-opened this way, it admits every valid bid proposed while
\* the clock stays in the window.
C14_ExpiradoRevisavel ==
    \A nome \in Nomes :
        LET i == BuscarLeilaoPorNome(leiloes, nome)
            l == leiloes[i]
            NaJanela(t) == l.data_inicio <= t /\ t < l.data_termino
        IN (i # 0 /\ l.estado = "EXPIRADO") =>
            \A r \in Estado(Sis, nome) :
                /\ r.ts[1] < l.data_inicio => r.estado = "INATIVO"
                /\ NaJanela(r.ts[1]) =>
                      /\ r.estado = "ABERTO"
                      /\ \A cpf \in Cpfs, valor \in Lances :
                             \A r2 \in ProporLanceSistema(r.sis, cpf, nome, valor) :
                                 (/\ Registrado(cpf)
                                  /\ valor >= l.lance_minimo
                                  /\ \A k \in 1 .. 3 : NaJanela(r2.ts[k])) =>
                                     /\ r2.exc = ""
                                     /\ Len(r2.sis.leiloes[i].lances) = 1

\* C14 witness: an expired auction that can be observed before its start and
\* in its window, with a registered bidder
C14_Witness ==
    \E i \in Idx : /\ leiloes[i].estado = "EXPIRADO"
                   /\ leiloes[i].data_inicio > 0
                   /\ participantes # {}

\* A successful cadastrar_leilao: the new auction and the clock value read
Novo(r) == r.sis.leiloes[Len(r.sis.leiloes)]

\* C15 (amended): right after a successful creation the auction is INATIVO if
\* the clock value read is before data_inicio, ABERTO if it lies in
\* [data_inicio, data_termino) and EXPIRADO if it is >= data_termino.
C15_EstadoAposCriacao ==
    \A nome \in Nomes, lance_minimo \in Valores, data_inicio \in Times,
       data_termino \in Times :
        \A r \in CadastrarLeilao(Sis, nome, lance_minimo, data_inicio, data_termino) :
            r.exc = "" =>
                /\ Novo(r).lances = <<>>
                /\ Novo(r).estado =
                       IF r.ts[1] < data_inicio THEN "INATIVO"
                       ELSE IF r.ts[1] < data_termino THEN "ABERTO"
                       ELSE "EXPIRADO"

\* C15 (as claimed; refuted): right after a successful creation the auction is
\* INATIVO unless the clock value read lies in [data_inicio, data_termino), in
\* which case it is ABERTO.
C15_InativoOuAberto ==
    \A nome \in Nomes, lance_minimo \in Valores, data_inicio \in Times,
       data_termino \in Times :
        \A r \in CadastrarLeilao(Sis, nome, lance_minimo, data_inicio, data_termino) :
            r.exc = "" =>
                Novo(r).estado =
                    IF data_inicio <= r.ts[1] /\ r.ts[1] < data_termino
                    THEN "ABERTO" ELSE "INATIVO"

\* C15 witness: an auction registered as EXPIRADO before anything else happened
C15_Witness ==
    /\ participantes = {}
    /\ Len(leiloes) = 1
    /\ leiloes[1].estado = "EXPIRADO"
    /\ leiloes[1].data_termino < MaxTime

IsPrefix(a, b) == Len(a) <= Len(b) /\ \A k \in 1 .. Len(a) : b[k] = a[k]

\* C16: every step that keeps the auctions registered (propose, observe,
\* alter, query, notify) leaves each bid log with its former content as a
\* prefix: no entry is removed, replaced or reordered.
C16_LogSoCresce ==
    [][Len(leiloes') = Len(leiloes) =>
          \A i \in Idx : IsPrefix(leiloes[i].lances, leiloes'[i].lances)]_vars

\* C16 witness: a log of two bids on an auction observed before its start
C16_Witness ==
    \E i \in Idx : /\ Len(leiloes[i].lances) = 2
                   /\ leiloes[i].estado = "INATIVO"

\* C17 (as claimed; refuted): notificar_ganhador never takes a defensive
\* branch: neither "has a winner but no highest bid" nor "is FINALIZADO but has
\* no winner".
C17_SemRamoDefensivo ==
    \A nome \in Nomes : \A r \in NotificarGanhador(Sis, nome) :
        r.motivo \notin {"aviso_sem_maior_lance", "aviso_sem_ganhador"}

NosLances(p) ==
    \E i \in Idx : \E k \in 1 .. Len(leiloes[i].lances) :
        leiloes[i].lances[k].participante = Ref(p)

\* C18: the has-bid flag is set exactly by an admitted bid and never cleared;
\* excluir_participante for a flagged participant raises ParticipanteInvalido
\* and leaves the registry unchanged, in every later state; for a participant
\* without an admitted bid it removes the participant.
C18_OfertanteNaoExcluido ==
    /\ [](\A p \in participantes :
            /\ NosLances(p) => ~PodeSerExcluido(p)
            /\ \A r \in ExcluirParticipante(Sis, p.cpf) :
                   IF PodeSerExcluido(p)
                   THEN r.exc = "" /\ r.sis.participantes = participantes \ {p}
                   ELSE /\ r.exc = "ParticipanteInvalido"
                        /\ r.sis.participantes = participantes)
    /\ [][/\ \A p \in participantes : ~PodeSerExcluido(p) => p \in participantes'
          /\ \A p \in participantes' \ participantes :
                 ~PodeSerExcluido(p) =>
                     \E i \in Idx :
                         /\ Len(leiloes') = Len(leiloes)
                         /\ Len(leiloes'[i].lances) = Len(leiloes[i].lances) + 1
                         /\ UltimoLance(leiloes'[i].lances).participante = Ref(p)]_vars

\* C18 witness: a flagged bidder whose auction is gone, next to a participant
\* who never bid
C18_Witness ==
    /\ leiloes = <<>>
    /\ \E p \in participantes : ~PodeSerExcluido(p)
    /\ \E p \in participantes : PodeSerExcluido(p)

\* C21 (amended): propor_lance_sistema with a registered bidder and a
\* registered auction raises ValueError, before the auction is consulted, for
\* a zero or negative amount; for every positive amount on an auction that the
\* check derives INATIVO or FINALIZADO it raises LeilaoInvalido, leaves log and
\* flags unchanged, and names the state derived from the clock reading that
\* builds the message (FINALIZADO when the check derived FINALIZADO).
C21_NaoAbertoValorPositivo ==
    \A cpf \in Cpfs, nome \in Nomes, valor \in Valores :
        \A r \in ProporLanceSistema(Sis, cpf, nome, valor) :
            LET i == BuscarLeilaoPorNome(leiloes, nome)
                visto == NoCheck(leiloes[i], r.ts).estado
            IN (Registrado(cpf) /\ i # 0) =>
                IF valor <= 0
                THEN r.exc = "ValueError" /\ r.sis = Sis
                ELSE visto \in {"INATIVO", "FINALIZADO"} =>
                        /\ r.exc = "LeilaoInvalido"
                        /\ r.sis.leiloes[i].lances = leiloes[i].lances
                        /\ r.sis.participantes = participantes
                        /\ r.estado = NaAdmissao(leiloes[i], r.ts).estado
                        /\ visto = "FINALIZADO" => r.estado = "FINALIZADO"

\* C21 (as claimed; refuted): propor_lance_sistema with a registered bidder on
\* a registered auction that is INATIVO or FINALIZADO (as last derived and as
\* derived by the call) raises LeilaoInvalido for every amount, zero and
\* negative amounts included.
C21_QualquerValor ==
    \A cpf \in Cpfs, nome \in Nomes, valor \in Valores :
        \A r \in ProporLanceSistema(Sis, cpf, nome, valor) :
            LET i == BuscarLeilaoPorNome(leiloes, nome)
            IN (/\ Registrado(cpf) /\ i # 0
                /\ leiloes[i].estado \in {"INATIVO", "FINALIZADO"}
                /\ DOMAIN r.ts # {} =>
                       NoCheck(leiloes[i], r.ts).estado = leiloes[i].estado) =>
                   r.exc = "LeilaoInvalido"

\* C21 witness: an inactive auction on which a registered bidder's amount 0 is
\* refused with ValueError and a positive amount with LeilaoInvalido
C21_Witness ==
    \E cpf \in Cpfs, nome \in Nomes :
        LET i == BuscarLeilaoPorNome(leiloes, nome)
        IN /\ i # 0 /\ Registrado(cpf)
           /\ leiloes[i].estado = "INATIVO"
           /\ \E r \in ProporLanceSistema(Sis, cpf, nome, 0) : r.exc = "ValueError"
           /\ \E r \in ProporLanceSistema(Sis, cpf, nome, MaxValor) :
                  r.exc = "LeilaoInvalido" /\ r.estado = "INATIVO"

\* C22: propor_lance with an argument that is not a Lance raises LeilaoInvalido
\* when the check derives a state other than ABERTO and TypeError when it
\* derives ABERTO; the bid log and the flags are unchanged in both cases.
C22_EstadoAntesDoArgumento ==
    \A nome \in Nomes : \A r \in ProporLanceObjeto(Sis, nome) :
        LET i == BuscarLeilaoPorNome(leiloes, nome)
            visto == NoCheck(leiloes[i], r.ts).estado
        IN /\ visto # "ABERTO" => r.exc = "LeilaoInvalido"
           /\ visto = "ABERTO" => r.exc = "TypeError"
           /\ r.sis.leiloes[i].lances = leiloes[i].lances
           /\ r.sis.participantes = participantes

\* C22 witness: an open auction with a bid, on which the call can end either way
C22_Witness ==
    \E nome \in Nomes :
        LET i == BuscarLeilaoPorNome(leiloes, nome)
        IN /\ i # 0
           /\ leiloes[i].estado = "ABERTO"
           /\ Len(leiloes[i].lances) = 1
           /\ \E r \in ProporLanceObjeto(Sis, nome) : r.exc = "TypeError"
           /\ \E r \in ProporLanceObjeto(Sis, nome) : r.exc = "LeilaoInvalido"

\* C23: on a non-empty log maior_lance is a bid of the log with the maximum
\* amount and menor_lance one with the minimum; on an empty log both are None;
\* the winner of a finalized auction, stored or reported, is the bidder of
\* maior_lance.
C23_MaiorEMenorLance ==
    \A nome \in Nomes :
        LET i == BuscarLeilaoPorNome(leiloes, nome)
            lg == leiloes[i].lances
        IN i # 0 =>
            \A r \in ObterMaiorLanceLeilao(Sis, nome),
               q \in ObterMenorLanceLeilao(Sis, nome) :
                /\ lg = <<>> => (r.ret = NoLance /\ q.ret = NoLance)
                /\ lg # <<>> =>
                      /\ \E k \in 1 .. Len(lg) : lg[k] = r.ret
                      /\ \E k \in 1 .. Len(lg) : lg[k] = q.ret
                      /\ \A k \in 1 .. Len(lg) :
                             q.ret.valor <= lg[k].valor /\ lg[k].valor <= r.ret.valor
                /\ leiloes[i].estado = "FINALIZADO" =>
                       leiloes[i].ganhador = r.ret.participante
                /\ \A g \in ObterGanhadorLeilao(Sis, nome) :
                       g.ret # NoPart => g.ret = r.ret.participante

\* C23 witness: an open auction of minimum 1 with two bids
C23_Witness ==
    \E i \in Idx : /\ Len(leiloes[i].lances) = 2
                   /\ leiloes[i].estado = "ABERTO"
                   /\ leiloes[i].lance_minimo = 1

\* The bids Lance(participante, valor) can build
LancesPossiveis ==
    [participante : [cpf : Cpfs, email : Emails], valor : Lances]

\* C24: the lances view is a permutation of the bid log in non-decreasing
\* order of amount (stable: of any two bids, the one of the lower amount first
\* and, at equal amounts, the earlier first); a rejected proposal leaves the
\* view as it was.
C24_VisaoOrdenada ==
    /\ \A nome \in Nomes :
           LET i == BuscarLeilaoPorNome(leiloes, nome)
               lg == leiloes[i].lances
           IN i # 0 =>
               /\ \A q \in ListarLancesLeilao(Sis, nome) :
                      /\ Len(q.ret) = Len(lg)
                      /\ \A k \in 1 .. Len(lg) :
                             Cardinality({j \in 1 .. Len(lg) : q.ret[j] = lg[k]}) =
                                 Cardinality({j \in 1 .. Len(lg) : lg[j] = lg[k]})
                      /\ \A k \in 1 .. Len(lg) - 1 :
                             q.ret[k].valor <= q.ret[k + 1].valor
               /\ \A cpf \in Cpfs, valor \in Valores :
                      \A r \in ProporLanceSistema(Sis, cpf, nome, valor) :
                          r.exc # "" =>
                              \A q \in ListarLancesLeilao(r.sis, nome) :
                                  q.ret = LancesOrdenados(lg)
    /\ \A a \in LancesPossiveis, b \in LancesPossiveis :
           LancesOrdenados(<<a, b>>) =
               IF a.valor <= b.valor THEN <<a, b>> ELSE <<b, a>>

\* C24 witness: a log of two bids on which a further proposal is rejected
C24_Witness ==
    \E cpf \in Cpfs, nome \in Nomes :
        LET i == BuscarLeilaoPorNome(leiloes, nome)
        IN /\ i # 0
           /\ Len(leiloes[i].lances) = 2
           /\ \E r \in ProporLanceSistema(Sis, cpf, nome, MaxValor) :
                  r.exc = "LanceInvalido"

\* The bids the registered participants can make
LancesDosRegistrados ==
    {[participante |-> Ref(p), valor |-> v] : p \in participantes, v \in Lances}

\* C25: for a bid a of a registered participant and any bid b, <, <=, > and >=
\* hold exactly when they hold between the amounts, and == exactly when the
\* bidders are equal (Participante.__eq__) and the amounts are equal; two
\* registered participants bidding the same amount give a <= b and b <= a
\* without a == b.
C25_ComparacaoDeLances ==
    /\ \A a \in LancesDosRegistrados, b \in LancesPossiveis :
           /\ LanceLt(a, b) <=> a.valor < b.valor
           /\ LanceLe(a, b) <=> a.valor <= b.valor
           /\ LanceGt(a, b) <=> a.valor > b.valor
           /\ LanceGe(a, b) <=> a.valor >= b.valor
           /\ LanceEq(a, b) <=>
                  /\ a.valor = b.valor
                  /\ \/ a.participante.cpf = b.participante.cpf
                     \/ a.participante.email = b.participante.email
    /\ \A a \in LancesDosRegistrados, b \in LancesDosRegistrados :
           (a.valor = b.valor /\ a.participante # b.participante) =>
               LanceLe(a, b) /\ LanceLe(b, a) /\ ~LanceEq(a, b)

\* C25 witness: an admitted bid and a bid of the same amount by the other
\* registered participant: each <= the other, and they are not equal
C25_Witness ==
    \E i \in Idx : \E p \in participantes :
        /\ leiloes[i].lances # <<>>
        /\ LET a == leiloes[i].lances[1]
               b == [participante |-> Ref(p), valor |-> a.valor]
           IN LanceLe(a, b) /\ LanceLe(b, a) /\ ~LanceEq(a, b)

\* C28: notificar_ganhador on a registered auction sends the email (returns
\* True) exactly when the state it derives first, at the ganhador read, is
\* FINALIZADO, and then it addresses the winner, the bidder of the highest
\* bid; it returns False when that state is INATIVO, ABERTO or EXPIRADO; it
\* never changes the bid log.
C28_NotificaSseFinalizado ==
    \A nome \in Nomes : \A r \in NotificarGanhador(Sis, nome) :
        LET i == BuscarLeilaoPorNome(leiloes, nome)
            visto == AtualizarEstado(leiloes[i], r.ts[1])
        IN i # 0 =>
            /\ r.exc = ""
            /\ r.motivo = "email" <=> visto.estado = "FINALIZADO"
            /\ r.motivo = "email" =>
                  /\ r.ret # NoPart
                  /\ \E k \in 1 .. Len(leiloes[i].lances) :
                         /\ leiloes[i].lances[k].participante = r.ret
                         /\ \A j \in 1 .. Len(leiloes[i].lances) :
                                leiloes[i].lances[j].valor <= leiloes[i].lances[k].valor
            /\ r.sis.leiloes[i].lances = leiloes[i].lances

\* C28 witness: a finalized auction with a single bid, whose winner is notified
C28_Witness ==
    \E nome \in Nomes :
        LET i == BuscarLeilaoPorNome(leiloes, nome)
        IN /\ i # 0
           /\ leiloes[i].estado = "FINALIZADO"
           /\ Len(leiloes[i].lances) = 1
           /\ \E r \in NotificarGanhador(Sis, nome) :
                  r.motivo = "email" /\ r.ret = leiloes[i].lances[1].participante

\* C29 (as claimed; refuted): every LanceInvalido of propor_lance carries one
\* of the three reasons, never "desconhecido", whatever the clock does.
C29_SemMotivoDesconhecido ==
    \A cpf \in Cpfs, nome \in Nomes, valor \in Lances :
        \A r \in ProporLanceSistema(Sis, cpf, nome, valor) :
            r.exc = "LanceInvalido" => r.motivo \in TresMotivos

\* C30 (as claimed; refuted): the state named in the LeilaoInvalido message of
\* propor_lance is the state the rejection was decided on, never ABERTO.
C30_NomeiaEstadoDecidido ==
    \A cpf \in Cpfs, nome \in Nomes, valor \in Lances :
        \A r \in ProporLanceSistema(Sis, cpf, nome, valor) :
            (r.exc = "LeilaoInvalido" /\ r.motivo = "nao_aberto") =>
                /\ r.estado = r.visto
                /\ r.estado \in NaoAberto

\* C32: a successful alterar_leilao sets exactly the fields for which a value
\* was supplied, keeps the others, the bid log, the other auctions and the
\* participants, and leaves the state derived from the new window at the
\* clock reading of its final atualizar_estado: ABERTO when the reading lies
\* in the new window, INATIVO before it, and after it EXPIRADO on an empty
\* log. The auction was INATIVO or EXPIRADO at the guard.
C32_AlterarSoOFornecido ==
    \A nome_atual \in Nomes, novo_nome \in Nomes \cup {"B", NoNome},
       novo_lance_minimo \in Lances \cup {NoNum},
       nova_data_inicio \in TimesOuNone, nova_data_termino \in TimesOuNone :
        \A r \in AlterarLeilao(Sis, nome_atual, novo_nome, novo_lance_minimo,
                               nova_data_inicio, nova_data_termino) :
            r.exc = "" =>
                LET i == BuscarLeilaoPorNome(leiloes, nome_atual)
                    l == leiloes[i]
                    n == r.sis.leiloes[i]
                    agora == r.ts[2]
                IN /\ n.nome = IF novo_nome = NoNome THEN l.nome ELSE novo_nome
                   /\ n.lance_minimo = IF novo_lance_minimo = NoNum
                                       THEN l.lance_minimo ELSE novo_lance_minimo
                   /\ n.data_inicio = IF nova_data_inicio = NoNum
                                      THEN l.data_inicio ELSE nova_data_inicio
                   /\ n.data_termino = IF nova_data_termino = NoNum
                                       THEN l.data_termino ELSE nova_data_termino
                   /\ n.lances = l.lances
                   /\ Len(r.sis.leiloes) = Len(leiloes)
                   /\ \A k \in Idx \ {i} : r.sis.leiloes[k] = leiloes[k]
                   /\ r.sis.participantes = participantes
                   /\ r.visto \in {"INATIVO", "EXPIRADO"}
                   /\ (n.data_inicio <= agora /\ agora < n.data_termino) =>
                          n.estado = "ABERTO"
                   /\ agora < n.data_inicio => n.estado = "INATIVO"
                   /\ (agora >= n.data_termino /\ n.lances = <<>>) =>
                          n.estado = "EXPIRADO"

\* C32 witness: an expired auction whose data_termino alone is moved past the
\* clock and which is open after the call
C32_Witness ==
    \E nome \in Nomes :
        LET i == BuscarLeilaoPorNome(leiloes, nome)
        IN /\ i # 0
           /\ leiloes[i].estado = "EXPIRADO"
           /\ \E r \in AlterarLeilao(Sis, nome, NoNome, NoNum, NoNum, MaxTime) :
                  /\ r.exc = ""
                  /\ r.visto = "EXPIRADO"
                  /\ r.sis.leiloes[i].estado = "ABERTO"
                  /\ r.sis.leiloes[i].data_inicio = leiloes[i].data_inicio

\* C35 (as claimed; refuted): whatever the clock returns, excluir_leilao and
\* alterar_leilao succeed only on an auction whose bid log is empty.
C35_SoComLogVazio ==
    \A nome \in Nomes :
        LET i == BuscarLeilaoPorNome(leiloes, nome)
        IN i # 0 =>
            /\ \A r \in ExcluirLeilao(Sis, nome) :
                   r.exc = "" => leiloes[i].lances = <<>>
            /\ \A novo_lance_minimo \in Lances \cup {NoNum},
                  nova_data_inicio \in TimesOuNone, nova_data_termino \in TimesOuNone :
                   \A r \in AlterarLeilao(Sis, nome, NoNome, novo_lance_minimo,
                                          nova_data_inicio, nova_data_termino) :
                       r.exc = "" => leiloes[i].lances = <<>>

\* C36: in every reachable state, whatever the clock returned, an auction
\* stored EXPIRADO has an empty bid log and an auction stored FINALIZADO a
\* non-empty one.
C36_EstadoCoerenteComLog ==
    \A i \in Idx :
        /\ leiloes[i].estado = "EXPIRADO" => leiloes[i].lances = <<>>
        /\ leiloes[i].estado = "FINALIZADO" => leiloes[i].lances # <<>>

\* C36 witness: an auction stored FINALIZADO with two bids, won by the bidder
\* of the second
C36_Witness ==
    \E i \in Idx :
        /\ leiloes[i].estado = "FINALIZADO"
        /\ Len(leiloes[i].lances) = 2
        /\ leiloes[i].ganhador = leiloes[i].lances[2].participante

\* C37: in every reachable state the sorted view lances equals the bid log in
\* insertion order, maior_lance is ultimo_lance, menor_lance is the first bid
\* of the log, and no two bids of a log have equal amounts.
C37_VisaoIgualAoLog ==
    \A nome \in Nomes :
        LET i == BuscarLeilaoPorNome(leiloes, nome)
            lg == leiloes[i].lances
        IN i # 0 =>
            /\ LancesOrdenados(lg) = lg
            /\ \A r \in ListarLancesLeilao(Sis, nome) : r.ret = lg
            /\ lg # <<>> =>
                   /\ MaiorLance(lg) = UltimoLance(lg)
                   /\ MenorLance(lg) = lg[1]
                   /\ \A r \in ObterMaiorLanceLeilao(Sis, nome) : r.ret = lg[Len(lg)]
                   /\ \A r \in ObterMenorLanceLeilao(Sis, nome) : r.ret = lg[1]
            /\ \A j \in 1 .. Len(lg), k \in 1 .. Len(lg) :
                   j # k => lg[j].valor # lg[k].valor

\* C37 witness: a log of two bids whose highest is the second and whose
\* lowest is the first
C37_Witness ==
    \E i \in Idx :
        /\ Len(leiloes[i].lances) = 2
        /\ MaiorLance(leiloes[i].lances) = leiloes[i].lances[2]
        /\ MenorLance(leiloes[i].lances) = leiloes[i].lances[1]
        /\ LancesOrdenados(leiloes[i].lances) = leiloes[i].lances

\* C38: in every reachable state the bidder of every bid in a registered
\* auction's log, every stored winner and every winner reported by
\* obter_ganhador_leilao is a registered participant.
C38_OfertantesRegistrados ==
    \A nome \in Nomes :
        LET i == BuscarLeilaoPorNome(leiloes, nome)
        IN i # 0 =>
            /\ \A k \in 1 .. Len(leiloes[i].lances) :
                   \E p \in participantes :
                       Ref(p) = leiloes[i].lances[k].participante
            /\ leiloes[i].ganhador # NoPart =>
                   \E p \in participantes : Ref(p) = leiloes[i].ganhador
            /\ \A r \in ObterGanhadorLeilao(Sis, nome) :
                   r.ret # NoPart =>
                       \E p \in r.sis.participantes : Ref(p) = r.ret

\* C38 witness: a finalized auction whose winner is registered and whose
\* deletion as a participant is refused, while the other participant's is not
C38_Witness ==
    \E i \in Idx, cpf \in Cpfs, outro \in Cpfs :
        /\ leiloes[i].estado = "FINALIZADO"
        /\ Registrado(cpf) /\ Registrado(outro)
        /\ Bidder(cpf) = leiloes[i].ganhador
        /\ \A r \in ExcluirParticipante(Sis, cpf) : r.exc # ""
        /\ \E r \in ExcluirParticipante(Sis, outro) : r.exc = ""

\* C39: a propor_lance_sistema call appends a bid only if its last clock
\* reading, the one inside _pode_receber_lance, lies in the window
\* data_inicio <= now < data_termino of the auction; when that reading is
\* before data_inicio or at or after data_termino the call raises and the log
\* is unchanged, even if an earlier reading of the call lay in the window.
C39_UltimaLeituraNaJanela ==
    \A cpf \in Cpfs, nome \in Nomes, valor \in Lances :
        \A r \in ProporLanceSistema(Sis, cpf, nome, valor) :
            LET i == BuscarLeilaoPorNome(leiloes, nome)
                l == leiloes[i]
                dentro == l.data_inicio <= r.ts[3] /\ r.ts[3] < l.data_termino
            IN (Registrado(cpf) /\ i # 0) =>
                /\ r.sis.leiloes[i].lances # l.lances => (r.exc = "" /\ dentro)
                /\ r.exc = "" =>
                       /\ dentro
                       /\ r.sis.leiloes[i].lances =
                              Append(l.lances, [participante |-> Bidder(cpf),
                                                valor |-> valor])
                       /\ r.sis.leiloes[i].data_inicio = l.data_inicio
                       /\ r.sis.leiloes[i].data_termino = l.data_termino
                /\ ~dentro => (r.exc # "" /\ r.sis.leiloes[i].lances = l.lances)

\* C39 witness: an auction with an empty log on which a first bid at the
\* minimum is refused when the first two readings lie in the window and the
\* last one at its end, and admitted when all three lie in the window
C39_Witness ==
    \E cpf \in Cpfs, nome \in Nomes :
        LET i == BuscarLeilaoPorNome(leiloes, nome)
            l == leiloes[i]
        IN /\ i # 0 /\ Registrado(cpf)
           /\ l.lances = <<>>
           /\ \E r \in ProporLanceSistema(Sis, cpf, nome, l.lance_minimo) :
                  /\ r.ts[1] = l.data_inicio /\ r.ts[2] = l.data_inicio
                  /\ r.ts[3] = l.data_termino
                  /\ r.exc = "LanceInvalido"
           /\ \E r \in ProporLanceSistema(Sis, cpf, nome, l.lance_minimo) :
                  /\ \A k \in 1 .. 3 : r.ts[k] = l.data_inicio
                  /\ r.exc = ""

\* C40 (as claimed; refuted): a registered participant and any participant
\* that compares equal to it (same cpf or same email) have equal hashes.
C40_HashCoerenteComIgualdade ==
    \A p \in participantes, q \in [cpf : Cpfs, email : Emails] :
        ParticipanteEq(Ref(p), q) => ParticipanteHash(Ref(p)) = ParticipanteHash(q)

\* -------------------------------------------------- the registry of auctions
\* Two names, auctions without bids: cadastrar_leilao, alterar_leilao,
\* excluir_leilao and the estado property
NomesReg == {"A", "B"}
MinimosReg == {1, 2}

RegCadastrarLeilao ==
    \E nome \in NomesReg \cup {"", NoNome}, lance_minimo \in MinimosReg \cup {0, NoNum},
       data_inicio \in TimesOuNone, data_termino \in TimesOuNone :
        \E r \in CadastrarLeilao(Sis, nome, lance_minimo, data_inicio, data_termino) :
            Instala(r)

RegAlterarLeilao ==
    \E sis2 \in { r.sis : r \in UNION {
                     AlterarLeilao(Sis, nome_atual, novo_nome, novo_lance_minimo,
                                   nova_data_inicio, nova_data_termino) :
                         nome_atual \in NomesReg,
                         novo_nome \in NomesReg \cup {"", NoNome, NaoNome},
                         novo_lance_minimo \in MinimosReg \cup {0, NoNum, NaoNum},
                         nova_data_inicio \in TimesOuNone \cup {NaoNum},
                         nova_data_termino \in TimesOuNone \cup {NaoNum} } } :
        Instala([sis |-> sis2])

RegExcluirLeilao ==
    \E nome \in NomesReg : \E r \in ExcluirLeilao(Sis, nome) : Instala(r)

RegEstado ==
    \E nome \in NomesReg : \E r \in Estado(Sis, nome) : Instala(r)

NextRegistro ==
    \/ RegCadastrarLeilao
    \/ RegAlterarLeilao
    \/ RegExcluirLeilao
    \/ RegEstado

SpecRegistro == Init /\ [][NextRegistro]_vars

\* C19: no two registered auctions share a name; cadastrar_leilao with a
\* registered name raises LeilaoInvalido and leaves the system as it was, and
\* alterar_leilao renaming an auction to the name of another registered
\* auction raises LeilaoInvalido and leaves every auction's nome,
\* lance_minimo, data_inicio and data_termino as they were.
C19_NomesUnicos ==
    /\ \A i \in Idx, j \in Idx : i # j => leiloes[i].nome # leiloes[j].nome
    /\ \A nome \in NomesReg, lance_minimo \in MinimosReg, data_inicio \in Times,
          data_termino \in Times :
           BuscarLeilaoPorNome(leiloes, nome) # 0 =>
               \A r \in CadastrarLeilao(Sis, nome, lance_minimo, data_inicio,
                                        data_termino) :
                   r.exc = "LeilaoInvalido" /\ r.sis = Sis
    /\ \A nome_atual \in NomesReg, novo_nome \in NomesReg,
          novo_lance_minimo \in MinimosReg \cup {NoNum},
          nova_data_inicio \in TimesOuNone, nova_data_termino \in TimesOuNone :
           (/\ novo_nome # nome_atual
            /\ BuscarLeilaoPorNome(leiloes, nome_atual) # 0
            /\ BuscarLeilaoPorNome(leiloes, novo_nome) # 0) =>
               \A r \in AlterarLeilao(Sis, nome_atual, novo_nome, novo_lance_minimo,
                                      nova_data_inicio, nova_data_termino) :
                   /\ r.exc = "LeilaoInvalido"
                   /\ Len(r.sis.leiloes) = Len(leiloes)
                   /\ \A k \in Idx : Dados(r.sis.leiloes[k]) = Dados(leiloes[k])

\* C19 witness: two auctions registered, the first alterable, and its renaming
\* to the second's name refused for the name
C19_Witness ==
    /\ Len(leiloes) = 2
    /\ \E r \in AlterarLeilao(Sis, leiloes[1].nome, leiloes[2].nome, NoNum,
                              NoNum, NoNum) :
           r.exc = "LeilaoInvalido" /\ r.motivo = "nome_ja_existe"

\* C27: a cadastrar_leilao that fails (empty or non-string name, non-positive
\* or non-numeric minimum, a date that is not a datetime, data_inicio >=
\* data_termino, or a registered name) leaves the system exactly as it was;
\* each of these inputs makes it fail.
C27_CriacaoFalhaSemEfeito ==
    \A nome \in NomesReg \cup {"", NoNome}, lance_minimo \in MinimosReg \cup {0, NoNum},
       data_inicio \in TimesOuNone, data_termino \in TimesOuNone :
        \A r \in CadastrarLeilao(Sis, nome, lance_minimo, data_inicio, data_termino) :
            /\ r.exc # "" => r.sis = Sis
            /\ (\/ nome \in {"", NoNome} \/ lance_minimo \in {0, NoNum}
                \/ data_inicio = NoNum \/ data_termino = NoNum
                \/ data_inicio >= data_termino
                \/ \E i \in Idx : leiloes[i].nome = nome) => r.exc # ""

\* C27 witness: one auction registered, and a creation under the free name
\* refused for a date that is not a datetime
C27_Witness ==
    /\ Len(leiloes) = 1
    /\ \E nome \in NomesReg :
           /\ BuscarLeilaoPorNome(leiloes, nome) = 0
           /\ \E r \in CadastrarLeilao(Sis, nome, 1, NoNum, MaxTime) :
                  r.exc = "ValueError"

\* The dates supplied to alterar_leilao: the first and the last instant, None,
\* and a value that is not a datetime
DatasArg == {0, MaxTime, NoNum, NaoNum}

\* C31: an alterar_leilao that raises leaves every auction's nome,
\* lance_minimo, data_inicio, data_termino and bids as they were, whatever
\* other values were supplied with the offending one; and once the state guard
\* is passed it raises whenever the resulting name is empty or not a string,
\* the resulting minimum non-positive or not a number, a date not a datetime,
\* the resulting data_inicio >= data_termino, or the new name that of another
\* registered auction.
C31_AlterarTudoOuNada ==
    \A nome_atual \in NomesReg :
      LET i == BuscarLeilaoPorNome(leiloes, nome_atual)
      IN i # 0 =>
        \A novo_nome \in NomesReg \cup {"", NoNome, NaoNome},
           novo_lance_minimo \in MinimosReg \cup {0, NoNum, NaoNum},
           nova_data_inicio \in DatasArg, nova_data_termino \in DatasArg :
            LET temp_nome == IF novo_nome # NoNome THEN novo_nome ELSE leiloes[i].nome
                temp_lance_minimo == IF novo_lance_minimo # NoNum
                                     THEN novo_lance_minimo ELSE leiloes[i].lance_minimo
                temp_data_inicio == IF nova_data_inicio # NoNum
                                    THEN nova_data_inicio ELSE leiloes[i].data_inicio
                temp_data_termino == IF nova_data_termino # NoNum
                                     THEN nova_data_termino ELSE leiloes[i].data_termino
                invalido ==
                    \/ temp_nome \in {"", NaoNome}
                    \/ temp_lance_minimo \in {0, NaoNum}
                    \/ temp_data_inicio = NaoNum \/ temp_data_termino = NaoNum
                    \/ temp_data_inicio >= temp_data_termino
                    \/ /\ novo_nome \notin {NoNome, nome_atual}
                       /\ \E k \in Idx : leiloes[k].nome = novo_nome
            IN \A r \in AlterarLeilao(Sis, nome_atual, novo_nome, novo_lance_minimo,
                                      nova_data_inicio, nova_data_termino) :
                   /\ r.exc # "" =>
                          /\ r.sis.participantes = participantes
                          /\ Len(r.sis.leiloes) = Len(leiloes)
                          /\ \A k \in Idx :
                                 /\ Dados(r.sis.leiloes[k]) = Dados(leiloes[k])
                                 /\ r.sis.leiloes[k].lances = leiloes[k].lances
                   /\ (r.visto \in {"INATIVO", "EXPIRADO"} /\ invalido) =>
                          r.exc \in {"ValueError", "LeilaoInvalido"}

\* C31 witness: two auctions registered, and an alteration of the first that
\* supplies a valid new name and a valid new minimum is refused for its dates
\* (the new data_inicio is not before the data_termino kept)
C31_Witness ==
    /\ Len(leiloes) = 2
    /\ leiloes[1].lance_minimo = 1
    /\ \E nome \in NomesReg \cup {"C"} :
           /\ \A k \in Idx : leiloes[k].nome # nome
           /\ \E r \in AlterarLeilao(Sis, leiloes[1].nome, nome, 2,
                                     leiloes[1].data_termino, NoNum) :
                  r.exc = "ValueError"

\* ------------------------------------------- concurrent propor_lance calls
\* Leilao.propor_lance up to its last check: atualizar_estado, the state
\* check and _pode_receber_lance (the argument is a Lance), with the clock
\* readings ts as in ProporLance; ok: the call goes on to the append, else it
\* raises (a LeilaoInvalido reads the state once more for its message)
VerificarLance(l, lance, ts) ==
    LET l2 == AtualizarEstado(AtualizarEstado(l, ts[1]), ts[2])
        p == PodeReceberLance(l2, lance.participante, lance.valor, ts[3])
    IN IF l2.estado # "ABERTO"
       THEN [leilao |-> AtualizarEstado(l2, ts[3]), ok |-> FALSE]
       ELSE [leilao |-> p.leilao, ok |-> p.ok]

\* Thread t runs propor_lance_sistema, with a registered bidder, a registered
\* auction and a positive amount, up to the end of the checks of propor_lance:
\* either they pass and the append is still to come, or the call raises
ConcVerificar(t) ==
    /\ emVoo[t] = Ocioso
    /\ \E cpf \in Cpfs, nome \in Nomes, valor \in Lances :
           LET achados == BuscarParticipantePorCpf(participantes, cpf)
               i == BuscarLeilaoPorNome(leiloes, nome)
               novo_lance == [participante |-> Ref(CHOOSE p \in achados : TRUE),
                              valor |-> valor]
           IN /\ achados # {}
              /\ i # 0
              /\ \E v \in {VerificarLance(leiloes[i], novo_lance, ts) :
                              ts \in [1 .. 3 -> Times]} :
                     /\ leiloes' = [leiloes EXCEPT ![i] = v.leilao]
                     /\ emVoo' = IF v.ok
                                 THEN [emVoo EXCEPT
                                          ![t] = [nome |-> nome, lance |-> novo_lance]]
                                 ELSE emVoo
              /\ UNCHANGED <<participantes, relogio>>

\* Thread t runs the rest of propor_lance: self._lances.append(lance) and
\* lance.participante.marcar_como_ofertante(), on the auction and the
\* participant objects it holds
ConcAnexar(t) ==
    /\ emVoo[t] # Ocioso
    /\ LET i == BuscarLeilaoPorNome(leiloes, emVoo[t].nome)
       IN /\ leiloes' = [leiloes EXCEPT ![i].lances = Append(@, emVoo[t].lance)]
          /\ participantes' = MarcarComoOfertante(participantes,
                                                  emVoo[t].lance.participante)
    /\ emVoo' = [emVoo EXCEPT ![t] = Ocioso]
    /\ UNCHANGED relogio

\* cadastrar_participante and cadastrar_leilao calls that succeed (one that
\* raises leaves the system as it was)
ConcCadastrarParticipante ==
    \E cpf \in Cpfs, email \in Emails :
        \E r \in CadastrarParticipante(Sis, cpf, email) : r.exc = "" /\ Instala(r)

ConcCadastrarLeilao ==
    \E nome \in Nomes, lance_minimo \in Lances,
       data_inicio \in Times, data_termino \in Times :
        \E r \in CadastrarLeilao(Sis, nome, lance_minimo, data_inicio, data_termino) :
            r.exc = "" /\ Instala(r)

NextConcorrente ==
    \/ ConcCadastrarParticipante
    \/ ConcCadastrarLeilao
    \/ \E t \in Threads : ConcVerificar(t)
    \/ \E t \in Threads : ConcAnexar(t)

SpecConcorrente == Init /\ [][NextConcorrente]_vars

\* C26: in propor_lance the check and the append are separate steps. The check
\* step admits a bid against the log as it is then (auction ABERTO, amount at
\* least the minimum, above the last bid, bidder other than the last bidder)
\* and changes neither the log nor the flags; the append step appends the
\* admitted bid, whatever the log has become, and flags its bidder. Two calls
\* interleaved between check and append reach a log that is not strictly
\* increasing or has two consecutive bids by the same bidder (C26_Witness).
C26_VerificaDepoisAnexa ==
    [][/\ \A t \in Threads :
              (emVoo[t] = Ocioso /\ emVoo'[t] # Ocioso) =>
                  LET i == BuscarLeilaoPorNome(leiloes, emVoo'[t].nome)
                      l == leiloes'[i]
                      b == emVoo'[t].lance
                  IN /\ i # 0
                     /\ l.estado = "ABERTO"
                     /\ l.lances = leiloes[i].lances
                     /\ participantes' = participantes
                     /\ b.valor >= l.lance_minimo
                     /\ l.lances # <<>> =>
                            /\ b.valor > l.lances[Len(l.lances)].valor
                            /\ ~ParticipanteEq(b.participante,
                                               l.lances[Len(l.lances)].participante)
       /\ \A i \in Idx :
              leiloes'[i].lances # leiloes[i].lances =>
                  \E t \in Threads :
                      /\ emVoo[t] # Ocioso
                      /\ emVoo'[t] = Ocioso
                      /\ leiloes'[i] =
                             [leiloes[i] EXCEPT !.lances = Append(@, emVoo[t].lance)]
                      /\ \E p \in participantes' :
                             Ref(p) = emVoo[t].lance.participante /\ p.possui_lances
      ]_vars

\* C26 witness: no call in flight, and a log whose amounts do not strictly
\* increase or in which two consecutive bids are by the same bidder
C26_Witness ==
    /\ \A t \in Threads : emVoo[t] = Ocioso
    /\ \E i \in Idx : \E k \in 1 .. Len(leiloes[i].lances) - 1 :
           \/ leiloes[i].lances[k].valor >= leiloes[i].lances[k + 1].valor
           \/ ParticipanteEq(leiloes[i].lances[k].participante,
                             leiloes[i].lances[k + 1].participante)

\* ------------------------------------------------------ a monotonic clock
\* The readings of outcome r never decrease and start at or after the last
\* reading made
Monotono(r) ==
    \A k \in 1 .. Len(r.ts) : r.ts[k] >= (IF k = 1 THEN relogio ELSE r.ts[k - 1])

\* The call ends with outcome r, whose readings a monotonic clock can give
InstalaRelogio(r) ==
    /\ Monotono(r)
    /\ participantes' = r.sis.participantes
    /\ leiloes' = r.sis.leiloes
    /\ relogio' = IF Len(r.ts) = 0 THEN relogio ELSE r.ts[Len(r.ts)]
    /\ UNCHANGED emVoo

\* Time passes with no call made
Tique ==
    /\ relogio < MaxTime
    /\ relogio' = relogio + 1
    /\ UNCHANGED <<participantes, leiloes, emVoo>>

RelCadastrarParticipante ==
    \E cpf \in Cpfs, email \in Emails :
        \E r \in CadastrarParticipante(Sis, cpf, email) : InstalaRelogio(r)

RelExcluirParticipante ==
    \E cpf \in Cpfs : \E r \in ExcluirParticipante(Sis, cpf) : InstalaRelogio(r)

RelCadastrarLeilao ==
    \E nome \in Nomes, lance_minimo \in Lances,
       data_inicio \in Times, data_termino \in Times :
        \E r \in CadastrarLeilao(Sis, nome, lance_minimo, data_inicio, data_termino) :
            InstalaRelogio(r)

RelEstado ==
    \E nome \in Nomes : \E r \in Estado(Sis, nome) : InstalaRelogio(r)

RelProporLanceSistema ==
    \E cpf \in Cpfs, nome \in Nomes, valor \in Valores :
        \E r \in ProporLanceSistema(Sis, cpf, nome, valor) : InstalaRelogio(r)

RelExcluirLeilao ==
    \E nome \in Nomes : \E r \in ExcluirLeilao(Sis, nome) : InstalaRelogio(r)

RelAlterarLeilao ==
    \E nome_atual \in Nomes, novo_nome \in Nomes \cup {NoNome},
       novo_lance_minimo \in Lances \cup {NoNum},
       nova_data_inicio \in TimesOuNone, nova_data_termino \in TimesOuNone :
        \E r \in AlterarLeilao(Sis, nome_atual, novo_nome, novo_lance_minimo,
                               nova_data_inicio, nova_data_termino) :
            InstalaRelogio(r)

NextRelogio ==
    \/ Tique
    \/ RelCadastrarParticipante
    \/ RelExcluirParticipante
    \/ RelCadastrarLeilao
    \/ RelEstado
    \/ RelProporLanceSistema
    \/ RelExcluirLeilao
    \/ RelAlterarLeilao

SpecRelogio == Init /\ [][NextRelogio]_vars

\* C34: under a monotonic clock an auction whose bid log is non-empty is
\* stored ABERTO or FINALIZADO, no read of its state derives INATIVO or
\* EXPIRADO, and every alterar_leilao and excluir_leilao on it is refused with
\* LeilaoInvalido, leaving it registered with its nome, lance_minimo,
\* data_inicio and data_termino.
C34_ComLancesNaoAlteravel ==
    \A nome \in Nomes :
        LET i == BuscarLeilaoPorNome(leiloes, nome)
        IN (i # 0 /\ leiloes[i].lances # <<>>) =>
            /\ leiloes[i].estado \in {"ABERTO", "FINALIZADO"}
            /\ \A r \in Estado(Sis, nome) :
                   Monotono(r) => r.estado \in {"ABERTO", "FINALIZADO"}
            /\ \A r \in ExcluirLeilao(Sis, nome) :
                   Monotono(r) =>
                       /\ r.exc = "LeilaoInvalido"
                       /\ Len(r.sis.leiloes) = Len(leiloes)
            /\ \A novo_nome \in Nomes \cup {"B", NoNome},
                  novo_lance_minimo \in Lances \cup {NoNum},
                  nova_data_inicio \in TimesOuNone, nova_data_termino \in TimesOuNone :
                   \A r \in AlterarLeilao(Sis, nome, novo_nome, novo_lance_minimo,
                                          nova_data_inicio, nova_data_termino) :
                       Monotono(r) =>
                           /\ r.exc = "LeilaoInvalido"
                           /\ Dados(r.sis.leiloes[i]) = Dados(leiloes[i])

\* C34 witness: an open auction with a bid, the clock inside its window, and
\* an alteration of its minimum refused
C34_Witness ==
    \E nome \in Nomes :
        LET i == BuscarLeilaoPorNome(leiloes, nome)
        IN /\ i # 0
           /\ Len(leiloes[i].lances) = 1
           /\ leiloes[i].estado = "ABERTO"
           /\ relogio >= leiloes[i].data_inicio
           /\ relogio < leiloes[i].data_termino
           /\ \E r \in AlterarLeilao(Sis, nome, NoNome, MaxValor, NoNum, NoNum) :
                  Monotono(r) /\ r.exc = "LeilaoInvalido"

\* The monotonic clock with no alterar_leilao and no excluir_leilao, where
\* time keeps passing until the last instant and a state that an observation
\* would change is eventually observed
NextVivo ==
    \/ Tique
    \/ RelCadastrarParticipante
    \/ RelCadastrarLeilao
    \/ RelEstado
    \/ RelProporLanceSistema

SpecVivo == Init /\ [][NextVivo]_vars /\ WF_vars(Tique) /\ WF_vars(RelEstado)

\* The auction i is stored FINALIZADO with bids or EXPIRADO without
Encerrado(i) ==
    \/ leiloes[i].estado = "FINALIZADO" /\ leiloes[i].lances # <<>>
    \/ leiloes[i].estado = "EXPIRADO" /\ leiloes[i].lances = <<>>

\* C33: under a monotonic clock that reaches data_termino, with no alteration
\* or deletion and the state eventually observed, every registered auction is
\* eventually stored FINALIZADO if its log holds a bid and EXPIRADO if not;
\* by then the clock has reached its data_termino, and no later step changes
\* its state or its bid log.
C33_AcabaEncerrado ==
    /\ \A nome \in Nomes :
           (BuscarLeilaoPorNome(leiloes, nome) # 0) ~>
               (/\ BuscarLeilaoPorNome(leiloes, nome) # 0
                /\ Encerrado(BuscarLeilaoPorNome(leiloes, nome))
                /\ relogio >= leiloes[BuscarLeilaoPorNome(leiloes, nome)].data_termino)
    /\ [][\A i \in Idx :
              leiloes[i].estado \in {"FINALIZADO", "EXPIRADO"} =>
                  /\ leiloes'[i].estado = leiloes[i].estado
                  /\ leiloes'[i].lances = leiloes[i].lances]_vars

\* C33 witness: a finalized auction with a bid whose data_termino the clock has
\* reached, and a higher bid by another participant then refused
C33_Witness ==
    \E nome \in Nomes, cpf \in Cpfs :
        LET i == BuscarLeilaoPorNome(leiloes, nome)
        IN /\ i # 0
           /\ leiloes[i].estado = "FINALIZADO"
           /\ Len(leiloes[i].lances) = 1
           /\ leiloes[i].lances[1].valor < MaxValor
           /\ relogio >= leiloes[i].data_termino
           /\ Registrado(cpf)
           /\ ~ParticipanteEq(Bidder(cpf), leiloes[i].lances[1].participante)
           /\ \A r \in ProporLanceSistema(Sis, cpf, nome, MaxValor) :
                  Monotono(r) => r.exc = "LeilaoInvalido"

\* --------------------------------------------- the registry of participants
\* CPFs as typed: bare or punctuated, over four digits, and two malformed
\* ones; four emails and two malformed ones
DigitosPart == {"1", "2", "3", "4"}
CpfsBrutos ==
    {CpfPuro(d) : d \in DigitosPart} \cup {CpfPontuado(d) : d \in DigitosPart}
        \cup {<<>>, <<"1", "2", "3">>}
EmailsPart == {"e1", "e2", "e3", "e4", "", "sem_arroba"}

PartCadastrarParticipante ==
    \E cpf \in CpfsBrutos, email \in EmailsPart :
        \E r \in CadastrarParticipante(Sis, cpf, email) : Instala(r)

PartExcluirParticipante ==
    \E cpf \in CpfsBrutos : \E r \in ExcluirParticipante(Sis, cpf) : Instala(r)

NextParticipantes ==
    \/ PartCadastrarParticipante
    \/ PartExcluirParticipante

SpecParticipantes == Init /\ [][NextParticipantes]_vars

SoDigitos(cpf) == \A k \in 1 .. Len(cpf) : EhDigito(cpf[k])

\* C20: no two registered participants share a CPF (the registered CPFs hold
\* digits only) or an email; a well-formed registration whose CPF, formatting
\* stripped, or whose email is already registered raises ParticipanteInvalido
\* and leaves the system as it was.
C20_CpfEEmailUnicos ==
    /\ \A p \in participantes, q \in participantes :
           p # q => (p.cpf # q.cpf /\ p.email # q.email)
    /\ \A p \in participantes : SoDigitos(p.cpf) /\ Len(p.cpf) = CpfDigitos
    /\ \A cpf \in CpfsBrutos, email \in EmailsPart :
           (/\ ValidarCpf(cpf) /\ ValidarEmail(email)
            /\ \/ \E p \in participantes : p.cpf = FormatarCpf(cpf)
               \/ \E p \in participantes : p.email = email) =>
               \A r \in CadastrarParticipante(Sis, cpf, email) :
                   r.exc = "ParticipanteInvalido" /\ r.sis = Sis

\* C20 witness: two participants registered, and a punctuated CPF refused as
\* already registered although it comes with a fresh email
C20_Witness ==
    /\ Cardinality(participantes) = 2
    /\ \E d \in DigitosPart, email \in EmailsPart :
           /\ \A p \in participantes : p.email # email
           /\ \E r \in CadastrarParticipante(Sis, CpfPontuado(d), email) :
                  r.motivo = "cpf_ja_cadastrado"

====
